---- MODULE Spec2Model ----
(***************************************************************************)
(* State-machine model of the snipersim core-state predictor scripts:     *)
(*   scripts/acaps_csp.py   Csp, the confidence-gated last-value predictor *)
(*   scripts/acaps_scsp.py  Scsp, the DVFS control loop built on Csp       *)
(*   scripts/nbit.py        NbitPredictor and its monitor                  *)
(* A run of the simulator loads one script; the variable `script` says     *)
(* which one, and only that script's handlers fire in the run.  The value  *)
(* "acaps_csp" / "nbit_predictor" stands for the class used on its own,    *)
(* through its public methods, as a library.                               *)
(***************************************************************************)
EXTENDS Integers, Sequences, FiniteSets, TLC

(* ---------------------------------------------------------------------- *)
(* Program constants                                                       *)
(* ---------------------------------------------------------------------- *)
RUNNING == 0
STALLED == 2
IDLE == 5
\* Python's None (the placeholder a fresh history is filled with)
None == -1
\* default idle frequency, MHz
DefaultIdleFreq == 1000

\* the cores of the simulated machine: range(0, num_cores)
Cores == {0, 1}
\* the values of sim.config.ncores Scsp is set up with
NumCores == {1, 2}
\* the values of power/technology_node Scsp is set up with, and those of
\* them used in the runs that go on to deliver periodic ticks
TechNodes == {22, 32, 45}
TickTechNodes == {22, 32}
\* the frequencies (MHz) get_vdd_from_freq is asked about
Frequencies == {0 - 100, 0, 999, 1000, 1799, 1800, 2000, 2500}
\* the core states the simulator reports in a run of the model
SampledStates == {RUNNING, STALLED, IDLE}
\* configured idle frequencies (MHz) and the nominal core frequency (MHz)
IdleFreqs == {DefaultIdleFreq, 2000}
ConfigFreqs == {2000}
\* configured observation windows of the analyzer, in microseconds
ObservationWindows == {0, 1}
\* sim.util.Time.US in units of the model's clock (one microsecond)
TimeUS == 1
\* the core states the simulator reports to the monitor scripts
MonitorStates == {RUNNING, IDLE}
\* the branches the simulator reports: (ip, actual, predicted, indirect)
Branches == {<<1, TRUE, TRUE, FALSE>>, <<2, FALSE, TRUE, FALSE>>}
\* the (ip, taken) states of those branches
BranchStates == {<<b[1], b[2]>> : b \in Branches}
\* the lists of states update_chain is given as encountered_states
EncounteredStates == {<< >>, <<RUNNING>>, <<IDLE>>, <<RUNNING, IDLE>>}
\* the values of predicted_idle: True, False or None
Predictions == {"True", "False", "None"}

(* ---------------------------------------------------------------------- *)
(* Bounds of the model                                                     *)
(* ---------------------------------------------------------------------- *)
\* largest history_size and conf_th a Csp is constructed with
MaxHistorySize == 2
MaxConfTh == 2
\* number of method calls made on the stand-alone Csp
MaxCalls == 5
\* number of non-zero periodic ticks delivered to Scsp on two cores, and
\* on a single core
MaxTicks == 3
MaxTicksOneCore == 4
\* largest bit width an NbitPredictor is constructed with
MaxBits == 2
\* number of event ids a monitor hands out (one per branch, one per core
\* per non-zero tick)
MaxEvents == 5
\* the most events (samples and branches) one run of the Markov monitor sees
MaxMarkovEvents == 6
\* the most calls of log_prediction made on a stand-alone predictor
MaxLogged == 3
\* the most branches one run of BranchMarkovPredictor sees
MaxBranches == 3

VARIABLES
    script,     \* which script this run of the simulator has loaded
    csp,        \* the stand-alone Csp object
    cspLast,    \* the last method call made on csp, with what it saw
    cspHits,    \* per update of csp: did actual equal the history tail
    scsp,       \* the Scsp object: acsp, frequencies, averages
    core_freq,  \* the simulator's per-core frequency (sim.dvfs)
    scspLast,   \* the last periodic call of Scsp, with what it saw
    nbp,        \* the stand-alone NbitPredictor object
    nbpLast,    \* the last update of nbp: the event and the counter before
    nbit_mon,   \* the CoreStateAndBranchMonitor object of nbit.py
    mcp,        \* the stand-alone MarkovChainPredictor object
    mcpLast,    \* the last method call made on mcp, with its arguments
    markov_mon, \* the CoreStateAndBranchMonitor object of csba_mcp.py
    markovLast, \* the last update_chain call of markov_mon, and per core
                \* the samples taken since the core's last branch
    analyzer,   \* the CoreStateAtBranchEventAnalyzer object
    bmp,        \* the BranchMarkovPredictor object
    sim_time,   \* the simulator's clock (sim.stats.time())
    hookLast    \* the last hook the simulator called, with its arguments

vars == <<script, csp, cspLast, cspHits, scsp, core_freq, scspLast,
          nbp, nbpLast, nbit_mon, mcp, mcpLast, markov_mon, markovLast,
          analyzer, bmp, sim_time, hookLast>>
cspVars == <<csp, cspLast, cspHits>>
scspVars == <<scsp, core_freq, scspLast>>
confVars == <<cspVars, scspVars>>
nbpVars == <<nbp, nbpLast>>
nbitVars == <<nbpVars, nbit_mon>>
mcpVars == <<mcp, mcpLast>>
markovVars == <<mcpVars, markov_mon, markovLast>>
simVars == <<sim_time, hookLast>>

(* ---------------------------------------------------------------------- *)
(* The hooks the simulator calls (sim.util.Every, EveryBranch, sim end)    *)
(* ---------------------------------------------------------------------- *)
NoHook == [op |-> "none", time_delta |-> 0,
           states |-> [c \in Cores |-> None], core_id |-> None,
           branch |-> <<0, FALSE, FALSE, FALSE>>, report |-> << >>]
PeriodicHook(time_delta, states) ==
    [NoHook EXCEPT
       !.op = "periodic", !.time_delta = time_delta,
       !.states = IF time_delta = 0 THEN [c \in Cores |-> None] ELSE states]
BranchHook(core_id, branch) ==
    [NoHook EXCEPT !.op = "branch", !.core_id = core_id, !.branch = branch]
\* hook_sim_end was called and wrote report: the simulation is over
SimEndHook(report) == [NoHook EXCEPT !.op = "sim_end", !.report = report]
Running == hookLast.op # "sim_end"

(* ---------------------------------------------------------------------- *)
(* class Csp                                                               *)
(* ---------------------------------------------------------------------- *)
Csp_init(history_size, conf_th) ==
    [history_size |-> history_size,
     history |-> [i \in 1..history_size |-> None],
     conf |-> 0,
     conf_th |-> conf_th,
     stats |-> [Correct |-> 0, Incorrect |-> 0]]

\* update_history that drops the newest entry instead of the oldest
update_history_drop_newest(self, value) ==
    [self EXCEPT !.history =
        Append(SubSeq(self.history, 1, Len(self.history) - 1), value)]

update_history(self, value) ==
    [self EXCEPT !.history = Append(Tail(self.history), value)]

is_predictable(self) ==
    IF self.conf >= self.conf_th THEN TRUE ELSE FALSE

\* update_stats without its confidence gate
update_stats_ungated(self, prediction, actual) ==
    IF prediction = actual
    THEN [self EXCEPT !.stats.Correct = @ + 1]
    ELSE [self EXCEPT !.stats.Incorrect = @ + 1]

\* update_stats with the two counters exchanged
update_stats_swapped(self, prediction, actual) ==
    IF is_predictable(self) = FALSE
    THEN self
    ELSE IF prediction = actual
         THEN [self EXCEPT !.stats.Incorrect = @ + 1]
         ELSE [self EXCEPT !.stats.Correct = @ + 1]

update_stats(self, prediction, actual) ==
    IF is_predictable(self) = FALSE
    THEN self
    ELSE IF prediction = actual
         THEN [self EXCEPT !.stats.Correct = @ + 1]
         ELSE [self EXCEPT !.stats.Incorrect = @ + 1]

\* update_conf without the saturation test
update_conf_uncapped(self, prediction, actual) ==
    IF prediction = actual
    THEN [self EXCEPT !.conf = @ + 1]
    ELSE [self EXCEPT !.conf = 0]

\* update_conf that forgets to reset on a miss
update_conf_noreset(self, prediction, actual) ==
    IF prediction = actual
    THEN IF self.conf < self.conf_th
         THEN [self EXCEPT !.conf = @ + 1]
         ELSE self
    ELSE self

update_conf(self, prediction, actual) ==
    IF prediction = actual
    THEN IF self.conf < self.conf_th
         THEN [self EXCEPT !.conf = @ + 1]
         ELSE self
    ELSE [self EXCEPT !.conf = 0]

\* predict_next_value reading the oldest entry of the history
predict_next_value_oldest(self) ==
    self.history[1]

predict_next_value(self) ==
    self.history[Len(self.history)]

\* update that pushes the value before it scores the prediction
update_push_first(self, actual_value) ==
    LET pushed == update_history(self, actual_value)
    IN  update_conf(pushed, predict_next_value(pushed), actual_value)

update(self, actual_value) ==
    LET predicted_value == predict_next_value(self)
        confd == update_conf(self, predicted_value, actual_value)
    IN  update_history(confd, actual_value)

(* ---------------------------------------------------------------------- *)
(* The stand-alone Csp, driven through its public methods                  *)
(* ---------------------------------------------------------------------- *)
NoCall == [op |-> "none", actual |-> None, prediction |-> None,
           tail |-> None, conf |-> 0, seen |-> << >>]

\* the calls made so far that changed csp
CspCalls == csp.stats.Correct + csp.stats.Incorrect + Len(cspHits)

CspUpdate(actual) ==
    /\ script = "acaps_csp"
    /\ CspCalls < MaxCalls
    /\ csp' = update(csp, actual)
    /\ cspLast' = [op |-> "update", actual |-> actual, prediction |-> None,
                   tail |-> csp.history[Len(csp.history)], conf |-> csp.conf,
                   seen |-> Append(cspLast.seen, actual)]
    /\ cspHits' = Append(cspHits, csp.history[Len(csp.history)] = actual)
    /\ UNCHANGED <<script, bmp, scspVars, nbitVars, markovVars, analyzer, simVars>>

CspUpdateStats(prediction, actual) ==
    /\ script = "acaps_csp"
    /\ CspCalls < MaxCalls
    /\ csp' = update_stats(csp, prediction, actual)
    /\ cspLast' = [op |-> "update_stats", actual |-> actual,
                   prediction |-> prediction,
                   tail |-> csp.history[Len(csp.history)], conf |-> csp.conf,
                   seen |-> cspLast.seen]
    /\ UNCHANGED <<script, bmp, cspHits, scspVars, nbitVars, markovVars, analyzer,
                   simVars>>

(* ---------------------------------------------------------------------- *)
(* class Scsp                                                              *)
(* ---------------------------------------------------------------------- *)
RECURSIVE Gcd(_, _)
Gcd(a, b) == IF b = 0 THEN a ELSE Gcd(b, a % b)

\* an exact fraction num/den in lowest terms (the float of the source,
\* without its rounding)
Frac(num, den) ==
    LET g == Gcd(num, den)
    IN  IF g = 0 THEN [num |-> 0, den |-> 1]
        ELSE [num |-> num \div g, den |-> den \div g]

\* ((cont - 1) * avg + actual_freq) / cont
running_mean(avg, cont, actual_freq) ==
    Frac((cont - 1) * avg.num + actual_freq * avg.den, avg.den * cont)

\* the state Scsp.setup leaves behind
\* Scsp.build_dvfs_table: (frequency MHz, voltage in tenths of a volt)
\* pairs from high to low, or the exception raised
build_dvfs_table(tech) ==
    IF tech = 22
    THEN [raised |-> "none",
          table |-> <<<<2000, 10>>, <<1800, 9>>, <<1500, 8>>, <<1000, 7>>,
                      <<0, 6>>>>]
    ELSE IF tech = 45
    THEN [raised |-> "none",
          table |-> <<<<2000, 12>>, <<1800, 11>>, <<1500, 10>>, <<1000, 9>>,
                      <<0, 8>>>>]
    ELSE [raised |-> "ValueError", table |-> << >>]

\* Scsp.setup up to the parsing of its arguments: nothing is registered
\* and no dictionary exists yet
Scsp_setup_args(idle_freq_mhz, predictor_confidence) ==
    [raised |-> "none",
     registered |-> FALSE,
     idle_freq_mhz |-> idle_freq_mhz,
     predictor_confidence |-> predictor_confidence,
     dvfs_table |-> << >>,
     num_cores |-> 0,
     config_freq_mhz |-> None,
     acsp |-> << >>,
     avg_core_frequency |-> << >>,
     avg_core_frequency_cont |-> << >>]

\* self.dvfs_table = self.build_dvfs_table(...)
Scsp_setup_dvfs_table(self, tech) ==
    LET built == build_dvfs_table(tech)
    IN  IF built.raised # "none"
        THEN [self EXCEPT !.raised = built.raised]
        ELSE [self EXCEPT !.dvfs_table = built.table]

\* sim.util.Every(..., self.periodic, roi_only = True)
Scsp_setup_every(self) ==
    IF self.raised # "none" THEN self
    ELSE [self EXCEPT !.registered = TRUE]

\* num_cores, config_freq_mhz and the per-core dictionaries
Scsp_setup_predictors(self, config_freq_mhz, num_cores) ==
    IF self.raised # "none" THEN self
    ELSE [self EXCEPT
            !.num_cores = num_cores,
            !.config_freq_mhz = config_freq_mhz,
            !.acsp = [i \in 0..(num_cores - 1) |->
                        Csp_init(1, self.predictor_confidence)],
            !.avg_core_frequency =
                [i \in 0..(num_cores - 1) |-> Frac(0, 1)],
            !.avg_core_frequency_cont = [i \in 0..(num_cores - 1) |-> 0]]

\* setup that builds the DVFS table after everything else
Scsp_setup_table_last(idle_freq_mhz, predictor_confidence, config_freq_mhz, num_cores, tech) ==
    Scsp_setup_dvfs_table(
        Scsp_setup_predictors(
            Scsp_setup_every(
                Scsp_setup_args(idle_freq_mhz, predictor_confidence)),
            config_freq_mhz, num_cores),
        tech)

\* the state Scsp.setup leaves behind; an exception ends it where it is
\* raised
Scsp_setup(idle_freq_mhz, predictor_confidence, config_freq_mhz, num_cores, tech) ==
    Scsp_setup_predictors(
        Scsp_setup_every(
            Scsp_setup_dvfs_table(
                Scsp_setup_args(idle_freq_mhz, predictor_confidence),
                tech)),
        config_freq_mhz, num_cores)

\* Scsp.get_vdd_from_freq from table entry i on: the first entry whose
\* frequency f reaches; past the last entry the statement
\* `assert ValueError(...)` tests an exception object, which is true, so
\* nothing is raised and the function returns None
RECURSIVE get_vdd_from(_, _, _)
get_vdd_from(table, f, i) ==
    IF i > Len(table)
    THEN [raised |-> "none", value |-> None]
    ELSE IF f.num >= table[i][1] * f.den
         THEN [raised |-> "none", value |-> table[i][2]]
         ELSE get_vdd_from(table, f, i + 1)

get_vdd_from_freq(self, f) == get_vdd_from(self.dvfs_table, f, 1)

\* the freq and vdd lists of Scsp.power, by core
power(self) ==
    [core \in 0..(self.num_cores - 1) |->
        [freq |-> self.avg_core_frequency[core],
         vdd |-> get_vdd_from_freq(self, self.avg_core_frequency[core])]]

\* A machine m is the Scsp object, the simulator's frequencies, and the
\* trace of the calls made so far by the running handler:
\*   <<core, "update_stats", actual>>      predictor.update_stats
\*   <<core, "adjust_frequency", state>>   self.adjust_frequency entered
\*   <<core, "get_frequency", f>>          sim.dvfs.get_frequency returned f
\*   <<core, "set_frequency", f>>          sim.dvfs.set_frequency(core, f)
\*   <<core, "update", actual>>            predictor.update
Emit(m, event) == [m EXCEPT !.trace = Append(@, event)]

\* adjust_frequency that sets the frequency without comparing
adjust_frequency_always_set(m, core, state) ==
    LET new_freq == IF state = IDLE THEN m.scsp.idle_freq_mhz
                    ELSE m.scsp.config_freq_mhz
        actual_freq == m.freq[core]
        m1 == Emit(Emit(m, <<core, "adjust_frequency", state>>),
                   <<core, "get_frequency", actual_freq>>)
    IN  Emit([m1 EXCEPT !.freq[core] = new_freq],
             <<core, "set_frequency", new_freq>>)

adjust_frequency(m, core, state) ==
    LET new_freq == IF state = IDLE THEN m.scsp.idle_freq_mhz
                    ELSE m.scsp.config_freq_mhz
        actual_freq == m.freq[core]
        m1 == Emit(Emit(m, <<core, "adjust_frequency", state>>),
                   <<core, "get_frequency", actual_freq>>)
    IN  IF actual_freq # new_freq
        THEN Emit([m1 EXCEPT !.freq[core] = new_freq],
                  <<core, "set_frequency", new_freq>>)
        ELSE m1

\* the loop body with the predictor updated before the reaction on the
\* past prediction
periodic_core_update_first(m, core, actual_state) ==
    LET actual_freq == m.freq[core]
        cont == m.scsp.avg_core_frequency_cont[core] + 1
        m1 == [m EXCEPT
                 !.scsp.avg_core_frequency_cont[core] = cont,
                 !.scsp.avg_core_frequency[core] =
                     running_mean(@, cont, actual_freq)]
        was_predictable == is_predictable(m1.scsp.acsp[core])
        predicted_value == predict_next_value(m1.scsp.acsp[core])
        m2 == Emit([m1 EXCEPT !.scsp.acsp[core] =
                      update(update_stats(@, predicted_value, actual_state),
                             actual_state)],
                   <<core, "update", actual_state>>)
        m3 == IF was_predictable /\ predicted_value # actual_state
              THEN adjust_frequency(m2, core, actual_state)
              ELSE m2
    IN  IF is_predictable(m3.scsp.acsp[core])
        THEN adjust_frequency(m3, core,
                              predict_next_value(m3.scsp.acsp[core]))
        ELSE m3

\* the loop body with the corrective action aimed at the state that was
\* predicted
periodic_core_corrects_to_prediction(m, core, actual_state) ==
    LET actual_freq == m.freq[core]
        cont == m.scsp.avg_core_frequency_cont[core] + 1
        m1 == [m EXCEPT
                 !.scsp.avg_core_frequency_cont[core] = cont,
                 !.scsp.avg_core_frequency[core] =
                     running_mean(@, cont, actual_freq)]
        m2 == IF is_predictable(m1.scsp.acsp[core])
              THEN LET predicted_value ==
                           predict_next_value(m1.scsp.acsp[core])
                       st == Emit([m1 EXCEPT !.scsp.acsp[core] =
                                     update_stats(@, predicted_value,
                                                  actual_state)],
                                  <<core, "update_stats", actual_state>>)
                   IN  IF predicted_value # actual_state
                       THEN adjust_frequency(st, core, predicted_value)
                       ELSE st
              ELSE m1
        m3 == Emit([m2 EXCEPT !.scsp.acsp[core] = update(@, actual_state)],
                   <<core, "update", actual_state>>)
    IN  IF is_predictable(m3.scsp.acsp[core])
        THEN adjust_frequency(m3, core,
                              predict_next_value(m3.scsp.acsp[core]))
        ELSE m3

\* the body of the loop of Scsp.periodic for one core
periodic_core(m, core, actual_state) ==
    LET actual_freq == m.freq[core]
        cont == m.scsp.avg_core_frequency_cont[core] + 1
        m1 == [m EXCEPT
                 !.scsp.avg_core_frequency_cont[core] = cont,
                 !.scsp.avg_core_frequency[core] =
                     running_mean(@, cont, actual_freq)]
        \* reaction on the past prediction
        m2 == IF is_predictable(m1.scsp.acsp[core])
              THEN LET predicted_value ==
                           predict_next_value(m1.scsp.acsp[core])
                       st == Emit([m1 EXCEPT !.scsp.acsp[core] =
                                     update_stats(@, predicted_value,
                                                  actual_state)],
                                  <<core, "update_stats", actual_state>>)
                   IN  IF predicted_value # actual_state
                       THEN adjust_frequency(st, core, actual_state)
                       ELSE st
              ELSE m1
        \* regular predictor update
        m3 == Emit([m2 EXCEPT !.scsp.acsp[core] = update(@, actual_state)],
                   <<core, "update", actual_state>>)
    IN  \* proactive setting from the new prediction
        IF is_predictable(m3.scsp.acsp[core])
        THEN adjust_frequency(m3, core,
                              predict_next_value(m3.scsp.acsp[core]))
        ELSE m3

\* for core in range(0, self.num_cores), in increasing order
RECURSIVE periodic_loop(_, _, _)
periodic_loop(m, todo, states) ==
    IF todo = {} THEN m
    ELSE LET core == CHOOSE c \in todo : \A d \in todo : c <= d
         IN  periodic_loop(periodic_core(m, core, states[core]),
                           todo \ {core}, states)

\* periodic without its test of time_delta
periodic_unguarded(m, time_delta, states) ==
    periodic_loop(m, 0..(m.scsp.num_cores - 1), states)

\* Scsp.periodic(time, time_delta); states[core] is what
\* sim.dvfs.get_core_state(core) returns during the call
periodic(m, time_delta, states) ==
    IF time_delta = 0 THEN m
    ELSE periodic_loop(m, 0..(m.scsp.num_cores - 1), states)

\* the value of a division by zero: the ZeroDivisionError Python raises
ZeroDivisionError == [num |-> 0, den |-> 0]
\* (correct / made) * 100.0
Percent(correct, made) ==
    IF made = 0 THEN ZeroDivisionError ELSE Frac(100 * correct, made)

\* f"{x:.2f}" and f"{x:.4f}": x rounded to a multiple of 1/scale, half to
\* even, given as the number of units of 1/scale
Formatted(x, scale) ==
    LET whole == (x.num * scale) \div x.den
        rest == (x.num * scale) % x.den
    IN  IF 2 * rest > x.den \/ (2 * rest = x.den /\ whole % 2 = 1)
        THEN whole + 1 ELSE whole

\* hook_sim_end computing the accuracy without its test
Scsp_accuracy_unguarded(stats) ==
    Percent(stats.Correct, stats.Incorrect + stats.Correct)

\* the accuracy hook_sim_end writes for one core
Scsp_accuracy(stats) ==
    IF stats.Correct > 0
    THEN Percent(stats.Correct, stats.Incorrect + stats.Correct)
    ELSE Frac(0, 1)

\* the rows hook_sim_end writes to the result file, by core, with the
\* voltage power() then looks up for the core
Scsp_hook_sim_end(self) ==
    [core \in 0..(self.num_cores - 1) |->
        LET stats == self.acsp[core].stats
        IN  [Correct |-> stats.Correct,
             Incorrect |-> stats.Incorrect,
             Accuracy |-> Scsp_accuracy(stats),
             avg_core_freq |-> self.avg_core_frequency[core].num
                                  \div self.avg_core_frequency[core].den,
             vdd |-> power(self)[core].vdd]]

NoTick == [op |-> "none", time_delta |-> 0,
           states |-> [c \in Cores |-> None],
           acsp |-> [c \in Cores |-> Csp_init(1, 0)],
           freq |-> [c \in Cores |-> 0],
           trace |-> <<>>,
           seen |-> [c \in Cores |-> << >>],
           f |-> None, vdd |-> [raised |-> "none", value |-> None]]

ScspPeriodic(time_delta, states) ==
    /\ script = "acaps_scsp"
    /\ scsp.registered
    /\ Running
    /\ DOMAIN states = DOMAIN scsp.acsp
    /\ time_delta # 0 =>
           \A c \in DOMAIN scsp.acsp :
               scsp.avg_core_frequency_cont[c] <
                   (IF scsp.num_cores = 1 THEN MaxTicksOneCore ELSE MaxTicks)
    /\ LET m == periodic([scsp |-> scsp, freq |-> core_freq, trace |-> <<>>],
                         time_delta, states)
       IN  /\ scsp' = m.scsp
           /\ core_freq' = m.freq
           /\ scspLast' = [op |-> "periodic", time_delta |-> time_delta,
                           states |-> IF time_delta = 0
                                      THEN [c \in DOMAIN states |-> None]
                                      ELSE states,
                           acsp |-> scsp.acsp,
                           freq |-> core_freq, trace |-> m.trace,
                           seen |-> IF time_delta = 0 THEN scspLast.seen
                                    ELSE [c \in DOMAIN states |->
                                            Append(scspLast.seen[c],
                                                   states[c])],
                           f |-> None, vdd |-> NoTick.vdd]
    /\ UNCHANGED <<script, bmp, cspVars, nbitVars, markovVars, analyzer, simVars>>

\* hook_sim_end; a setup that raised has ended the run before it
ScspSimEnd ==
    /\ script = "acaps_scsp"
    /\ scsp.raised = "none"
    /\ Running
    /\ hookLast' = SimEndHook(Scsp_hook_sim_end(scsp))
    /\ UNCHANGED <<script, bmp, confVars, nbitVars, markovVars, analyzer, sim_time>>

\* a call of get_vdd_from_freq(f) on an Scsp that was set up
ScspGetVdd(f) ==
    /\ script = "get_vdd_from_freq"
    /\ scsp.raised = "none"
    /\ scspLast' = [NoTick EXCEPT !.op = "get_vdd_from_freq", !.f = f,
                       !.vdd = get_vdd_from_freq(scsp, Frac(f, 1))]
    /\ UNCHANGED <<script, bmp, cspVars, scsp, core_freq, nbitVars, markovVars,
                   analyzer, simVars>>

(* ---------------------------------------------------------------------- *)
(* nbit.py: class NbitPredictor                                            *)
(* ---------------------------------------------------------------------- *)
is_idle(state_id) == (state_id = IDLE)

RECURSIVE Pow2(_)
Pow2(n) == IF n = 0 THEN 1 ELSE 2 * Pow2(n - 1)

NbitPredictor_init(n_bits) ==
    [n_bits |-> n_bits,
     state |-> 0,
     max_state |-> Pow2(n_bits) - 1,
     prediction_log |-> << >>,
     num_predictions_made |-> 0,
     num_predictions_correct |-> 0,
     num_predictions_idle |-> 0,
     num_predictions_active |-> 0]

\* update whose counter wraps around instead of saturating
Nbit_update_wrapping(self, event) ==
    IF event = 1
    THEN [self EXCEPT !.state = (@ + 1) % (self.max_state + 1)]
    ELSE IF event = 0
         THEN [self EXCEPT !.state = (@ - 1) % (self.max_state + 1)]
         ELSE self

Nbit_update(self, event) ==
    IF event = 1
    THEN IF self.state < self.max_state
         THEN [self EXCEPT !.state = @ + 1]
         ELSE self
    ELSE IF event = 0
         THEN IF self.state > 0
              THEN [self EXCEPT !.state = @ - 1]
              ELSE self
         ELSE self

\* predict_idle with the comparison including the threshold
Nbit_predict_idle_inclusive(self) ==
    IF self.state > (self.max_state \div 2) THEN FALSE ELSE TRUE

Nbit_predict_idle(self) ==
    IF self.state >= (self.max_state \div 2) THEN FALSE ELSE TRUE

\* a Python bool as the value log_prediction receives for predicted_idle:
\* True, False or None, written "True", "False", "None"
PyBool(b) == IF b THEN "True" ELSE "False"

Nbit_log_prediction(self, event_id, core_id, predicted_idle, actual_idle) ==
    [self EXCEPT
       !.num_predictions_made = @ + 1,
       !.num_predictions_correct =
           IF predicted_idle = PyBool(actual_idle) THEN @ + 1 ELSE @,
       !.num_predictions_idle =
           IF predicted_idle = "True" THEN @ + 1 ELSE @,
       !.num_predictions_active =
           IF predicted_idle = "True" THEN @ ELSE @ + 1,
       !.prediction_log =
           Append(@, [event_id |-> event_id, core_id |-> core_id,
                      predicted_idle |-> predicted_idle,
                      actual_idle |-> actual_idle])]

(* ---------------------------------------------------------------------- *)
(* The stand-alone NbitPredictor, driven through update                    *)
(* ---------------------------------------------------------------------- *)
\* before any call: the counter path holds the initial counter only
NoUpdate ==
    [op |-> "none", event |-> 0, state |-> 0, events |-> << >>,
     states |-> <<0>>, predicted_before |-> << >>, predicted |-> << >>,
     predicted_idle |-> "None", actual_idle |-> FALSE]

\* one event fed to the predictor, as hook_periodic feeds it: update, then
\* predict_idle.  nbpLast keeps the events, the counter path, the value of
\* predict_idle() just before each update and the one just after it.
NbitUpdate(event) ==
    /\ script = "nbit_predictor"
    /\ Len(nbpLast.events) < MaxCalls
    /\ nbp' = Nbit_update(nbp, event)
    /\ nbpLast' = [NoUpdate EXCEPT
                      !.op = "update", !.event = event, !.state = nbp.state,
                      !.events = Append(nbpLast.events, event),
                      !.states = Append(nbpLast.states, nbp'.state),
                      !.predicted_before =
                          Append(nbpLast.predicted_before,
                                 Nbit_predict_idle(nbp)),
                      !.predicted =
                          Append(nbpLast.predicted, Nbit_predict_idle(nbp'))]
    /\ UNCHANGED <<script, bmp, confVars, nbit_mon, markovVars, analyzer, simVars>>

\* a run that calls log_prediction on the stand-alone predictor
NbpLogPrediction(core_id, predicted_idle, actual_idle) ==
    /\ script = "nbit_log_prediction"
    /\ Len(nbp.prediction_log) < MaxLogged
    /\ nbp' = Nbit_log_prediction(nbp, Len(nbp.prediction_log) + 1, core_id,
                                  predicted_idle, actual_idle)
    /\ nbpLast' = [NoUpdate EXCEPT
                      !.op = "log_prediction",
                      !.predicted_idle = predicted_idle,
                      !.actual_idle = actual_idle]
    /\ UNCHANGED <<script, bmp, confVars, nbit_mon, markovVars, analyzer, simVars>>

(* ---------------------------------------------------------------------- *)
(* nbit.py: class CoreStateAndBranchMonitor                                *)
(* ---------------------------------------------------------------------- *)
NbitMonitor_setup(n_bits) ==
    [global_event_id |-> 1,
     core_state_log |-> << >>,
     branch_log |-> << >>,
     n_bits |-> n_bits,
     nbit_predictors |-> [core_id \in Cores |-> NbitPredictor_init(n_bits)]]

\* the loop body with the prediction taken before the counter is updated
NbitMonitor_periodic_core_predict_first(self, time, core_id, state_id) ==
    LET event_id == self.global_event_id
        predicted_idle == Nbit_predict_idle(self.nbit_predictors[core_id])
        updated == Nbit_update(self.nbit_predictors[core_id],
                               IF ~is_idle(state_id) THEN 1 ELSE 0)
        actual_idle == is_idle(state_id)
    IN  [self EXCEPT
           !.global_event_id = @ + 1,
           !.core_state_log =
               Append(@, <<event_id, core_id, state_id, time>>),
           !.nbit_predictors[core_id] =
               Nbit_log_prediction(updated, event_id, core_id,
                                   PyBool(predicted_idle), actual_idle)]

\* the body of the loop of hook_periodic for one core
NbitMonitor_periodic_core(self, time, core_id, state_id) ==
    LET event_id == self.global_event_id
        updated == Nbit_update(self.nbit_predictors[core_id],
                               IF ~is_idle(state_id) THEN 1 ELSE 0)
        predicted_idle == Nbit_predict_idle(updated)
        actual_idle == is_idle(state_id)
    IN  [self EXCEPT
           !.global_event_id = @ + 1,
           !.core_state_log =
               Append(@, <<event_id, core_id, state_id, time>>),
           !.nbit_predictors[core_id] =
               Nbit_log_prediction(updated, event_id, core_id,
                                   PyBool(predicted_idle), actual_idle)]

RECURSIVE NbitMonitor_periodic_loop(_, _, _, _)
NbitMonitor_periodic_loop(self, time, todo, states) ==
    IF todo = {} THEN self
    ELSE LET core_id == CHOOSE c \in todo : \A d \in todo : c <= d
         IN  NbitMonitor_periodic_loop(
                 NbitMonitor_periodic_core(self, time, core_id,
                                           states[core_id]),
                 time, todo \ {core_id}, states)

\* the hook without its test of time_delta
NbitMonitor_hook_periodic_unguarded(self, time, time_delta, states) ==
    NbitMonitor_periodic_loop(self, time, Cores, states)

NbitMonitor_hook_periodic(self, time, time_delta, states) ==
    IF time_delta = 0 THEN self
    ELSE NbitMonitor_periodic_loop(self, time, Cores, states)

NbitMonitor_hook_branch_predictor(self, time, core_id, ip, predicted, actual, indirect) ==
    LET event_id == self.global_event_id
    IN  [self EXCEPT
           !.global_event_id = @ + 1,
           !.branch_log = Append(@, <<event_id, core_id, ip, actual,
                                      predicted, indirect, time>>)]

NbitHookPeriodic(time_delta, states) ==
    /\ script = "nbit"
    /\ Running
    /\ time_delta # 0 =>
           nbit_mon.global_event_id - 1 + Cardinality(Cores) <= MaxEvents
    /\ sim_time' = sim_time + time_delta
    /\ nbit_mon' = NbitMonitor_hook_periodic(nbit_mon, sim_time', time_delta,
                                             states)
    /\ hookLast' = PeriodicHook(time_delta, states)
    /\ UNCHANGED <<script, bmp, confVars, nbpVars, markovVars, analyzer>>

NbitHookBranch(core_id, branch) ==
    /\ script = "nbit"
    /\ Running
    /\ nbit_mon.global_event_id - 1 + 1 <= MaxEvents
    /\ nbit_mon' = NbitMonitor_hook_branch_predictor(
                       nbit_mon, sim_time, core_id, branch[1], branch[3],
                       branch[2], branch[4])
    /\ hookLast' = BranchHook(core_id, branch)
    /\ UNCHANGED <<script, bmp, confVars, nbpVars, markovVars, analyzer, sim_time>>

\* hook_sim_end computing the accuracy without its test
NbitMonitor_accuracy_unguarded(p) ==
    Percent(p.num_predictions_correct, p.num_predictions_made)

NbitMonitor_accuracy(p) ==
    IF p.num_predictions_made > 0
    THEN Percent(p.num_predictions_correct, p.num_predictions_made)
    ELSE Frac(0, 1)

\* the rows hook_sim_end writes to nbit_counter_statistics.csv, by core;
\* Accuracy_Percent is the text f"{accuracy:.2f}", in hundredths.  The
\* other three files are row by row copies of the logs.
NbitMonitor_hook_sim_end(self) ==
    [core_id \in Cores |->
        LET p == self.nbit_predictors[core_id]
            accuracy == NbitMonitor_accuracy(p)
        IN  [Predictions_Made |-> p.num_predictions_made,
             Predictions_Correct |-> p.num_predictions_correct,
             accuracy |-> accuracy,
             Accuracy_Percent |->
                 IF accuracy = ZeroDivisionError THEN None
                 ELSE Formatted(accuracy, 100),
             Predictions_Idle |-> p.num_predictions_idle,
             Predictions_Active |-> p.num_predictions_active]]

NbitSimEnd ==
    /\ script = "nbit"
    /\ Running
    /\ hookLast' = SimEndHook(NbitMonitor_hook_sim_end(nbit_mon))
    /\ UNCHANGED <<script, bmp, confVars, nbitVars, markovVars, analyzer, sim_time>>

(* ---------------------------------------------------------------------- *)
(* csba_mcp.py: class MarkovChainPredictor                                 *)
(* ---------------------------------------------------------------------- *)
\* transition_stats is a dict in insertion order: a sequence of
\* [key, count, idle_count] with distinct keys.  last_branch_state is a dict:
\* a function whose domain is the cores seen.  predict_idle returns True,
\* False or None, written "True", "False", "None".
MarkovChainPredictor_init ==
    [transition_stats |-> << >>,
     last_branch_state |-> << >>,
     prediction_log |-> << >>,
     branches_taken |-> 0,
     branches_not_taken |-> 0,
     num_predictions_made |-> 0,
     num_predictions_correct |-> 0,
     num_predictions_idle |-> 0,
     num_predictions_active |-> 0]

HasKey(stats, key) == \E i \in 1..Len(stats) : stats[i].key = key
KeyIndex(stats, key) == CHOOSE i \in 1..Len(stats) : stats[i].key = key

\* update_chain that records a transition on the first branch of a core too
Markov_update_chain_first_recorded(self, core_id, branch_state, encountered_states) ==
    LET counted == IF branch_state[2]
                   THEN [self EXCEPT !.branches_taken = @ + 1]
                   ELSE [self EXCEPT !.branches_not_taken = @ + 1]
        key == <<IF core_id \in DOMAIN self.last_branch_state
                 THEN self.last_branch_state[core_id] ELSE branch_state,
                 branch_state>>
        idle_observed == \E i \in 1..Len(encountered_states) :
                             is_idle(encountered_states[i])
        stats0 == IF HasKey(self.transition_stats, key)
                  THEN self.transition_stats
                  ELSE Append(self.transition_stats,
                              [key |-> key, count |-> 0, idle_count |-> 0])
        k == KeyIndex(stats0, key)
    IN  [counted EXCEPT
           !.last_branch_state = (core_id :> branch_state) @@ @,
           !.transition_stats =
               [stats0 EXCEPT
                  ![k].count = @ + 1,
                  ![k].idle_count = IF idle_observed THEN @ + 1 ELSE @]]

\* update_chain that looks at the first encountered state only
Markov_update_chain_first_state(self, core_id, branch_state, encountered_states) ==
    LET counted == IF branch_state[2]
                   THEN [self EXCEPT !.branches_taken = @ + 1]
                   ELSE [self EXCEPT !.branches_not_taken = @ + 1]
    IN  IF core_id \notin DOMAIN self.last_branch_state
        THEN [counted EXCEPT !.last_branch_state =
                 (core_id :> branch_state) @@ @]
        ELSE LET key == <<self.last_branch_state[core_id], branch_state>>
                 idle_observed == /\ encountered_states # << >>
                                  /\ is_idle(encountered_states[1])
                 stats0 == IF HasKey(self.transition_stats, key)
                           THEN self.transition_stats
                           ELSE Append(self.transition_stats,
                                       [key |-> key, count |-> 0,
                                        idle_count |-> 0])
                 k == KeyIndex(stats0, key)
             IN  [counted EXCEPT
                    !.last_branch_state[core_id] = branch_state,
                    !.transition_stats =
                        [stats0 EXCEPT
                           ![k].count = @ + 1,
                           ![k].idle_count =
                               IF idle_observed THEN @ + 1 ELSE @]]

\* update_chain that counts a transition only when it creates its record
Markov_update_chain_count_on_create(self, core_id, branch_state, encountered_states) ==
    LET counted == IF branch_state[2]
                   THEN [self EXCEPT !.branches_taken = @ + 1]
                   ELSE [self EXCEPT !.branches_not_taken = @ + 1]
    IN  IF core_id \notin DOMAIN self.last_branch_state
        THEN [counted EXCEPT !.last_branch_state =
                 (core_id :> branch_state) @@ @]
        ELSE LET key == <<self.last_branch_state[core_id], branch_state>>
                 idle_observed == \E i \in 1..Len(encountered_states) :
                                      is_idle(encountered_states[i])
                 fresh == ~HasKey(self.transition_stats, key)
                 stats0 == IF fresh
                           THEN Append(self.transition_stats,
                                       [key |-> key, count |-> 0,
                                        idle_count |-> 0])
                           ELSE self.transition_stats
                 k == KeyIndex(stats0, key)
             IN  [counted EXCEPT
                    !.last_branch_state[core_id] = branch_state,
                    !.transition_stats =
                        [stats0 EXCEPT
                           ![k].count = IF fresh THEN @ + 1 ELSE @,
                           ![k].idle_count =
                               IF idle_observed THEN @ + 1 ELSE @]]

\* update_chain that returns on a core's first branch before counting it
Markov_update_chain_first_uncounted(self, core_id, branch_state, encountered_states) ==
    IF core_id \notin DOMAIN self.last_branch_state
    THEN [self EXCEPT !.last_branch_state = (core_id :> branch_state) @@ @]
    ELSE LET counted == IF branch_state[2]
                        THEN [self EXCEPT !.branches_taken = @ + 1]
                        ELSE [self EXCEPT !.branches_not_taken = @ + 1]
             key == <<self.last_branch_state[core_id], branch_state>>
             idle_observed ==
                 \E i \in 1..Len(encountered_states) :
                     is_idle(encountered_states[i])
             stats0 == IF HasKey(self.transition_stats, key)
                       THEN self.transition_stats
                       ELSE Append(self.transition_stats,
                                   [key |-> key, count |-> 0,
                                    idle_count |-> 0])
             k == KeyIndex(stats0, key)
         IN  [counted EXCEPT
                !.last_branch_state[core_id] = branch_state,
                !.transition_stats =
                    [stats0 EXCEPT
                       ![k].count = @ + 1,
                       ![k].idle_count =
                           IF idle_observed THEN @ + 1 ELSE @]]

\* update_chain that keeps the transitions of each core apart
Markov_update_chain_per_core(self, core_id, branch_state, encountered_states) ==
    LET counted == IF branch_state[2]
                   THEN [self EXCEPT !.branches_taken = @ + 1]
                   ELSE [self EXCEPT !.branches_not_taken = @ + 1]
    IN  IF core_id \notin DOMAIN self.last_branch_state
        THEN [counted EXCEPT !.last_branch_state =
                 (core_id :> branch_state) @@ @]
        ELSE LET key == <<self.last_branch_state[core_id], branch_state,
                          core_id>>
                 idle_observed == \E i \in 1..Len(encountered_states) :
                                      is_idle(encountered_states[i])
                 stats0 == IF HasKey(self.transition_stats, key)
                           THEN self.transition_stats
                           ELSE Append(self.transition_stats,
                                       [key |-> key, count |-> 0,
                                        idle_count |-> 0])
                 k == KeyIndex(stats0, key)
             IN  [counted EXCEPT
                    !.last_branch_state[core_id] = branch_state,
                    !.transition_stats =
                        [stats0 EXCEPT
                           ![k].count = @ + 1,
                           ![k].idle_count =
                               IF idle_observed THEN @ + 1 ELSE @]]

Markov_update_chain(self, core_id, branch_state, encountered_states) ==
    LET taken_flag == branch_state[2]
        counted == IF taken_flag
                   THEN [self EXCEPT !.branches_taken = @ + 1]
                   ELSE [self EXCEPT !.branches_not_taken = @ + 1]
    IN  IF core_id \notin DOMAIN self.last_branch_state
        THEN [counted EXCEPT !.last_branch_state =
                 (core_id :> branch_state) @@ @]
        ELSE LET prev_branch_state == self.last_branch_state[core_id]
                 key == <<prev_branch_state, branch_state>>
                 idle_observed ==
                     \E i \in 1..Len(encountered_states) :
                         is_idle(encountered_states[i])
                 stats0 == IF HasKey(self.transition_stats, key)
                           THEN self.transition_stats
                           ELSE Append(self.transition_stats,
                                       [key |-> key, count |-> 0,
                                        idle_count |-> 0])
                 k == KeyIndex(stats0, key)
             IN  [counted EXCEPT
                    !.last_branch_state[core_id] = branch_state,
                    !.transition_stats =
                        [stats0 EXCEPT
                           ![k].count = @ + 1,
                           ![k].idle_count =
                               IF idle_observed THEN @ + 1 ELSE @]]

\* hex(n) for n >= 0: "0x" and the hexadecimal digits, as a sequence
HexDigit(d) ==
    <<"0", "1", "2", "3", "4", "5", "6", "7", "8", "9", "a", "b", "c", "d",
      "e", "f">>[d + 1]
RECURSIVE HexDigits(_)
HexDigits(n) ==
    IF n < 16 THEN <<HexDigit(n)>>
    ELSE Append(HexDigits(n \div 16), HexDigit(n % 16))
hex(n) == <<"0x">> \o HexDigits(n)

\* the row dump_transition_stats writes for one record; Idle_Ratio is the
\* text f"{ratio:.4f}", in ten-thousandths
Markov_transition_row(record) ==
    LET prev_state == record.key[1]
        curr_state == record.key[2]
        count == record.count
        idle_count == record.idle_count
        ratio == IF count > 0 THEN Frac(idle_count, count) ELSE Frac(0, 1)
    IN  [Prev_IP |-> hex(prev_state[1]), Prev_Taken |-> prev_state[2],
         Next_IP |-> hex(curr_state[1]), Next_Taken |-> curr_state[2],
         Count |-> count, Idle_Count |-> idle_count,
         Idle_Ratio |-> Formatted(ratio, 10000)]

\* dump_transition_stats that empties the table as it writes it
Markov_dump_transition_stats_consuming(self) ==
    [self |-> [self EXCEPT !.transition_stats = << >>],
     rows |-> [i \in 1..Len(self.transition_stats) |->
                 Markov_transition_row(self.transition_stats[i])]]

\* dump_transition_stats: the predictor afterwards and the rows written
\* under the header, in the order of the dict
Markov_dump_transition_stats(self) ==
    [self |-> self,
     rows |-> [i \in 1..Len(self.transition_stats) |->
                 Markov_transition_row(self.transition_stats[i])]]

RECURSIVE SumFrom(_, _, _)
\* the sum of field f over the records of stats whose source is prev
SumFrom(stats, prev, f) ==
    IF stats = << >> THEN 0
    ELSE (IF Head(stats).key[1] = prev THEN Head(stats)[f] ELSE 0)
         + SumFrom(Tail(stats), prev, f)

\* predict_idle that answers False when it has no data for the last state
Markov_predict_idle_false_without_data(self, core_id) ==
    IF core_id \notin DOMAIN self.last_branch_state
    THEN "None"
    ELSE LET ip_taken_prev == self.last_branch_state[core_id]
             total_count ==
                 SumFrom(self.transition_stats, ip_taken_prev, "count")
             total_idle ==
                 SumFrom(self.transition_stats, ip_taken_prev, "idle_count")
         IN  IF 2 * total_idle > total_count THEN "True" ELSE "False"

\* predict_idle that predicts idle at exactly one half
Markov_predict_idle_at_half(self, core_id) ==
    IF core_id \notin DOMAIN self.last_branch_state
    THEN "None"
    ELSE LET ip_taken_prev == self.last_branch_state[core_id]
             total_count ==
                 SumFrom(self.transition_stats, ip_taken_prev, "count")
             total_idle ==
                 SumFrom(self.transition_stats, ip_taken_prev, "idle_count")
         IN  IF total_count = 0 THEN "None"
             ELSE IF 2 * total_idle >= total_count THEN "True" ELSE "False"

Markov_predict_idle(self, core_id) ==
    IF core_id \notin DOMAIN self.last_branch_state
    THEN "None"
    ELSE LET ip_taken_prev == self.last_branch_state[core_id]
             total_count ==
                 SumFrom(self.transition_stats, ip_taken_prev, "count")
             total_idle ==
                 SumFrom(self.transition_stats, ip_taken_prev, "idle_count")
         IN  IF total_count = 0 THEN "None"
             \* float(total_idle) / float(total_count) > 0.5
             ELSE IF 2 * total_idle > total_count THEN "True" ELSE "False"

\* log_prediction that also leaves the log alone when nothing was predicted
Markov_log_prediction_known_only(self, event_id, core_id, predicted_idle, actual_idle) ==
    IF predicted_idle = "None" THEN self
    ELSE [self EXCEPT
            !.num_predictions_made = @ + 1,
            !.num_predictions_correct =
                IF predicted_idle = PyBool(actual_idle) THEN @ + 1 ELSE @,
            !.num_predictions_idle =
                IF predicted_idle = "True" THEN @ + 1 ELSE @,
            !.num_predictions_active =
                IF predicted_idle = "True" THEN @ ELSE @ + 1,
            !.prediction_log =
                Append(@, [event_id |-> event_id, core_id |-> core_id,
                           predicted_idle |-> predicted_idle,
                           actual_idle |-> actual_idle])]

Markov_log_prediction(self, event_id, core_id, predicted_idle, actual_idle) ==
    LET counted ==
          IF predicted_idle # "None"
          THEN [self EXCEPT
                  !.num_predictions_made = @ + 1,
                  !.num_predictions_correct =
                      IF predicted_idle = PyBool(actual_idle)
                      THEN @ + 1 ELSE @,
                  !.num_predictions_idle =
                      IF predicted_idle = "True" THEN @ + 1 ELSE @,
                  !.num_predictions_active =
                      IF predicted_idle = "True" THEN @ ELSE @ + 1]
          ELSE self
    IN  [counted EXCEPT !.prediction_log =
           Append(@, [event_id |-> event_id, core_id |-> core_id,
                      predicted_idle |-> predicted_idle,
                      actual_idle |-> actual_idle])]

(* ---------------------------------------------------------------------- *)
(* The stand-alone MarkovChainPredictor, driven through its methods: one   *)
(* run calls update_chain (and reads predict_idle), another log_prediction *)
(* ---------------------------------------------------------------------- *)
NoMcpCall ==
    [op |-> "none", core_id |-> None, branch_state |-> <<0, FALSE>>,
     encountered_states |-> << >>, predicted_idle |-> "None",
     actual_idle |-> FALSE, rows |-> << >>,
     calls |-> 0, cores |-> {}]

\* the number of calls made on mcp so far
McpCalls ==
    mcp.branches_taken + mcp.branches_not_taken + Len(mcp.prediction_log)

McpUpdateChain(core_id, branch_state, encountered_states) ==
    /\ script = "markov_predictor"
    /\ McpCalls < MaxCalls
    /\ mcp' = Markov_update_chain(mcp, core_id, branch_state,
                                  encountered_states)
    /\ mcpLast' = [NoMcpCall EXCEPT
                      !.op = "update_chain", !.core_id = core_id,
                      !.branch_state = branch_state,
                      !.encountered_states = encountered_states,
                      !.calls = mcpLast.calls + 1,
                      !.cores = mcpLast.cores \cup {core_id}]
    /\ UNCHANGED <<script, bmp, confVars, nbitVars, markov_mon, markovLast, analyzer, simVars>>

McpLogPrediction(core_id, predicted_idle, actual_idle) ==
    /\ script = "markov_log_prediction"
    /\ Len(mcp.prediction_log) < MaxLogged
    /\ mcp' = Markov_log_prediction(mcp, McpCalls + 1, core_id,
                                    predicted_idle, actual_idle)
    /\ mcpLast' = [NoMcpCall EXCEPT
                      !.op = "log_prediction", !.core_id = core_id,
                      !.predicted_idle = predicted_idle,
                      !.actual_idle = actual_idle,
                      !.calls = mcpLast.calls, !.cores = mcpLast.cores]
    /\ UNCHANGED <<script, bmp, confVars, nbitVars, markov_mon, markovLast, analyzer, simVars>>

\* a call of dump_transition_stats(filepath): the rows written
McpDumpTransitionStats ==
    /\ script = "markov_predictor"
    /\ LET dumped == Markov_dump_transition_stats(mcp)
       IN  /\ mcp' = dumped.self
           /\ mcpLast' = [NoMcpCall EXCEPT
                             !.op = "dump_transition_stats",
                             !.rows = dumped.rows,
                             !.calls = mcpLast.calls,
                             !.cores = mcpLast.cores]
    /\ UNCHANGED <<script, bmp, confVars, nbitVars, markov_mon, markovLast, analyzer, simVars>>

(* ---------------------------------------------------------------------- *)
(* csba_mcp.py: class CoreStateAndBranchMonitor                            *)
(* ---------------------------------------------------------------------- *)
MarkovMonitor_init ==
    [global_event_id |-> 1,
     core_state_log |-> << >>,
     branch_log |-> << >>,
     markov_predictor |-> MarkovChainPredictor_init]

\* the body of the loop of hook_periodic for one core
MarkovMonitor_periodic_core(self, time_fs, core_id, state_id) ==
    LET event_id == self.global_event_id
        predicted_idle == Markov_predict_idle(self.markov_predictor, core_id)
        actual_idle == is_idle(state_id)
    IN  [self EXCEPT
           !.global_event_id = @ + 1,
           !.core_state_log =
               Append(@, <<event_id, core_id, state_id, time_fs>>),
           !.markov_predictor =
               Markov_log_prediction(@, event_id, core_id, predicted_idle,
                                     actual_idle)]

RECURSIVE MarkovMonitor_periodic_loop(_, _, _, _)
MarkovMonitor_periodic_loop(self, time_fs, todo, states) ==
    IF todo = {} THEN self
    ELSE LET core_id == CHOOSE c \in todo : \A d \in todo : c <= d
         IN  MarkovMonitor_periodic_loop(
                 MarkovMonitor_periodic_core(self, time_fs, core_id,
                                             states[core_id]),
                 time_fs, todo \ {core_id}, states)

\* the hook without its test of time_delta_fs
MarkovMonitor_hook_periodic_unguarded(self, time_fs, time_delta_fs, states) ==
    MarkovMonitor_periodic_loop(self, time_fs, Cores, states)

MarkovMonitor_hook_periodic(self, time_fs, time_delta_fs, states) ==
    IF time_delta_fs = 0 THEN self
    ELSE MarkovMonitor_periodic_loop(self, time_fs, Cores, states)

\* the event id of the last entry of log[1..n] for core_id, or None
RECURSIVE LastBranchId(_, _, _)
LastBranchId(log, n, core_id) ==
    IF n = 0 THEN None
    ELSE IF log[n][2] = core_id THEN log[n][1]
         ELSE LastBranchId(log, n - 1, core_id)

\* StatesBetween without its test of the core
RECURSIVE StatesBetween_any_core(_, _, _, _)
StatesBetween_any_core(log, core_id, lo, hi) ==
    IF log = << >> THEN << >>
    ELSE (IF lo < Head(log)[1] /\ Head(log)[1] < hi
          THEN <<Head(log)[3]>> ELSE << >>)
         \o StatesBetween_any_core(Tail(log), core_id, lo, hi)

RECURSIVE StatesBetween(_, _, _, _)
\* the states logged for core_id with lo < event id < hi, in log order
StatesBetween(log, core_id, lo, hi) ==
    IF log = << >> THEN << >>
    ELSE (IF Head(log)[2] = core_id /\ lo < Head(log)[1] /\ Head(log)[1] < hi
          THEN <<Head(log)[3]>> ELSE << >>)
         \o StatesBetween(Tail(log), core_id, lo, hi)

\* hook_branch_predictor that does not advance global_event_id
MarkovMonitor_hook_branch_predictor_same_id(self, time_fs, core_id, ip, predicted, actual, indirect) ==
    LET event_id == self.global_event_id
        branch_log == Append(self.branch_log,
                             <<event_id, core_id, ip, actual, predicted,
                               indirect, time_fs>>)
        last_branch_id == LastBranchId(branch_log, Len(branch_log) - 1,
                                       core_id)
        encountered_states ==
            IF last_branch_id # None
            THEN StatesBetween(self.core_state_log, core_id, last_branch_id,
                               event_id)
            ELSE << >>
    IN  [self EXCEPT
           !.branch_log = branch_log,
           !.markov_predictor =
               Markov_update_chain(@, core_id, <<ip, actual>>,
                                   encountered_states)]

\* the encountered_states hook_branch_predictor collects for the branch
\* event_id of core_id, the last entry of branch_log
MarkovMonitor_encountered_states(branch_log, core_state_log, core_id, event_id) ==
    LET last_branch_id == LastBranchId(branch_log, Len(branch_log) - 1,
                                       core_id)
    IN  IF last_branch_id # None
        THEN StatesBetween(core_state_log, core_id, last_branch_id, event_id)
        ELSE << >>

\* hook_branch_predictor: the monitor afterwards and the arguments of its
\* call of update_chain
MarkovMonitor_hook_branch_predictor_call(self, time_fs, core_id, ip, predicted, actual, indirect) ==
    LET event_id == self.global_event_id
        branch_log == Append(self.branch_log,
                             <<event_id, core_id, ip, actual, predicted,
                               indirect, time_fs>>)
        encountered_states ==
            MarkovMonitor_encountered_states(branch_log, self.core_state_log,
                                             core_id, event_id)
        branch_state == <<ip, actual>>
    IN  [core_id |-> core_id, branch_state |-> branch_state,
         encountered_states |-> encountered_states]

MarkovMonitor_hook_branch_predictor(self, time_fs, core_id, ip, predicted, actual, indirect) ==
    LET event_id == self.global_event_id
        branch_log == Append(self.branch_log,
                             <<event_id, core_id, ip, actual, predicted,
                               indirect, time_fs>>)
        encountered_states ==
            MarkovMonitor_encountered_states(branch_log, self.core_state_log,
                                             core_id, event_id)
        branch_state == <<ip, actual>>
    IN  [self EXCEPT
           !.global_event_id = @ + 1,
           !.branch_log = branch_log,
           !.markov_predictor =
               Markov_update_chain(@, core_id, branch_state,
                                   encountered_states)]

\* no update_chain call yet; since[c] holds the states sampled for core c
\* since its last branch (since the start while c is not in branched)
NoMarkovCall ==
    [op |-> "none", core_id |-> None, branch_state |-> <<0, FALSE>>,
     encountered_states |-> << >>,
     since |-> [c \in Cores |-> << >>], branched |-> {}, calls |-> 0]

MarkovHookPeriodic(time_delta, states) ==
    /\ script = "csba_mcp"
    /\ Running
    /\ time_delta # 0 =>
           markov_mon.global_event_id - 1 + Cardinality(Cores)
               <= MaxMarkovEvents
    /\ sim_time' = sim_time + time_delta
    /\ markov_mon' = MarkovMonitor_hook_periodic(markov_mon, sim_time',
                                                 time_delta, states)
    /\ hookLast' = PeriodicHook(time_delta, states)
    /\ markovLast' =
           IF time_delta = 0 THEN markovLast
           ELSE [markovLast EXCEPT
                   !.since = [c \in Cores |-> Append(@[c], states[c])]]
    /\ UNCHANGED <<script, bmp, confVars, nbitVars, mcpVars, analyzer>>

MarkovHookBranch(core_id, branch) ==
    /\ script = "csba_mcp"
    /\ Running
    /\ markov_mon.global_event_id - 1 + 1 <= MaxMarkovEvents
    /\ markov_mon' = MarkovMonitor_hook_branch_predictor(
                         markov_mon, sim_time, core_id, branch[1], branch[3],
                         branch[2], branch[4])
    /\ hookLast' = BranchHook(core_id, branch)
    /\ LET call == MarkovMonitor_hook_branch_predictor_call(
                        markov_mon, sim_time, core_id, branch[1], branch[3],
                        branch[2], branch[4])
       IN  markovLast' =
               [op |-> "update_chain", core_id |-> call.core_id,
                branch_state |-> call.branch_state,
                encountered_states |-> call.encountered_states,
                since |-> [markovLast.since EXCEPT ![core_id] = << >>],
                branched |-> markovLast.branched \cup {core_id},
                calls |-> markovLast.calls + 1]
    /\ UNCHANGED <<script, bmp, confVars, nbitVars, mcpVars, analyzer, sim_time>>

\* dump_statistics computing the accuracy without its test
Markov_accuracy_unguarded(self) ==
    Percent(self.num_predictions_correct, self.num_predictions_made)

Markov_accuracy(self) ==
    IF self.num_predictions_made > 0
    THEN Percent(self.num_predictions_correct, self.num_predictions_made)
    ELSE Frac(0, 1)

\* the rows dump_statistics writes to statistics.csv; Accuracy_Percent is
\* the text f"{accuracy:.2f}", in hundredths
Markov_dump_statistics(self) ==
    LET accuracy == Markov_accuracy(self)
    IN  [Branches_Taken |-> self.branches_taken,
         Branches_Not_Taken |-> self.branches_not_taken,
         Predictions_Made |-> self.num_predictions_made,
         Predictions_Correct |-> self.num_predictions_correct,
         accuracy |-> accuracy,
         Accuracy_Percent |->
             IF accuracy = ZeroDivisionError THEN None
             ELSE Formatted(accuracy, 100),
         Predictions_Idle |-> self.num_predictions_idle,
         Predictions_Active |-> self.num_predictions_active]

\* hook_sim_end: the statistics file; the other four files are row by row
\* copies of the logs and of the transition table
MarkovMonitor_hook_sim_end(self) ==
    Markov_dump_statistics(self.markov_predictor)

MarkovSimEnd ==
    /\ script = "csba_mcp"
    /\ Running
    /\ hookLast' = SimEndHook(MarkovMonitor_hook_sim_end(markov_mon))
    /\ UNCHANGED <<script, bmp, confVars, nbitVars, markovVars, analyzer, sim_time>>

(* ---------------------------------------------------------------------- *)
(* analysis_data_export.py                                                 *)
(* ---------------------------------------------------------------------- *)
\* active_records is a dict in insertion order: a sequence of records with
\* distinct event_id.  The instruction_count of a record, a statistic read
\* from the simulator and only written out, is left out.
CoreStateAnalyzer_init(core_id, observation_window) ==
    [core_id |-> core_id,
     observation_window |-> observation_window,
     active_records |-> << >>,
     completed_records |-> << >>,
     next_event_id |-> 1]

record_branch_event(self, time, ip, predicted, actual, indirect) ==
    LET event_id == self.next_event_id
        record == [event_id |-> event_id, core_id |-> self.core_id,
                   ip |-> ip, branch_taken |-> actual, start_time |-> time,
                   states |-> << >>]
    IN  [self EXCEPT !.next_event_id = @ + 1,
                     !.active_records = Append(@, record)]

\* the record with the sample of this tick appended
Sampled(record, time, current_state) ==
    [record EXCEPT !.states =
        Append(@, <<time - record.start_time, current_state>>)]
WindowOver(self, record, time) ==
    time - record.start_time > self.observation_window * TimeUS

\* the loop of collect_state_sample without its del: a record whose window
\* is over is appended to completed_records and stays in active_records
collect_state_sample_body_keeps_active(self, time, current_state) ==
    LET sampled == [i \in 1..Len(self.active_records) |->
                       [self.active_records[i] EXCEPT !.states =
                           Append(@, <<time - self.active_records[i].start_time,
                                       current_state>>)]]
    IN  [self EXCEPT
           !.active_records = sampled,
           !.completed_records =
               @ \o SelectSeq(sampled,
                              LAMBDA r : time - r.start_time
                                  > self.observation_window * TimeUS)]

collect_state_sample_body(self, time, current_state) ==
    LET sampled == [i \in 1..Len(self.active_records) |->
                       Sampled(self.active_records[i], time, current_state)]
    IN  [self EXCEPT
           !.active_records =
               SelectSeq(sampled, LAMBDA r : ~WindowOver(self, r, time)),
           !.completed_records =
               @ \o SelectSeq(sampled, LAMBDA r : WindowOver(self, r, time))]

\* collect_state_sample without its test of time_delta
collect_state_sample_unguarded(self, time, time_delta, current_state) ==
    collect_state_sample_body(self, time, current_state)

collect_state_sample(self, time, time_delta, current_state) ==
    IF time_delta = 0 THEN self
    ELSE collect_state_sample_body(self, time, current_state)

Analyzer_setup(observation_window) ==
    [observation_window |-> observation_window,
     total_branches |-> 0,
     core_analyzers |->
         [core_id \in Cores |->
             CoreStateAnalyzer_init(core_id, observation_window)]]

Analyzer_hook_periodic(self, time, time_delta, states) ==
    [self EXCEPT !.core_analyzers =
        [core_id \in Cores |->
            collect_state_sample(@[core_id], time, time_delta,
                                 states[core_id])]]

Analyzer_hook_branch_predictor(self, time, core_id, ip, predicted, actual, indirect) ==
    LET counted == [self EXCEPT !.total_branches = @ + 1]
    IN  IF core_id \in DOMAIN self.core_analyzers
        THEN [counted EXCEPT !.core_analyzers[core_id] =
                 record_branch_event(@, time, ip, predicted, actual,
                                     indirect)]
        ELSE counted

\* hook_sim_end, first loop: per analyzer in the order of core_analyzers,
\* its completed records followed by its records still active
RECURSIVE Analyzer_all_completed_records(_, _)
Analyzer_all_completed_records(self, todo) ==
    IF todo = {} THEN << >>
    ELSE LET core_id == CHOOSE c \in todo : \A d \in todo : c <= d
             analyzer_c == self.core_analyzers[core_id]
         IN  analyzer_c.completed_records \o analyzer_c.active_records
                 \o Analyzer_all_completed_records(self, todo \ {core_id})

\* the line of core_state_patterns.csv written for a record
Analyzer_pattern_row(record) ==
    [Event_ID |-> record.event_id, Start_Time |-> record.start_time,
     Core_ID |-> record.core_id, Branch_IP |-> hex(record.ip),
     Branch_Taken |-> PyBool(record.branch_taken),
     States |-> [i \in 1..Len(record.states) |-> record.states[i][2]]]

\* [i for i, state in enumerate(states) if state == 5], from position i on
RECURSIVE idle_positions(_, _)
idle_positions(states, i) ==
    IF i >= Len(states) THEN << >>
    ELSE (IF states[i + 1][2] = 5 THEN <<i>> ELSE << >>)
             \o idle_positions(states, i + 1)

\* generate_analysis_summary, first loop: pattern_stats in insertion order
RECURSIVE Analyzer_pattern_stats(_, _)
Analyzer_pattern_stats(all_records, pattern_stats) ==
    IF all_records = << >> THEN pattern_stats
    ELSE LET record == Head(all_records)
             ip == hex(record.ip)
             positions == idle_positions(record.states, 0)
             taken == IF record.branch_taken THEN 1 ELSE 0
             next ==
                 IF positions = << >> THEN pattern_stats
                 ELSE IF ~HasKey(pattern_stats, ip)
                 THEN Append(pattern_stats,
                             [key |-> ip, count |-> 1,
                              idle_positions |-> positions,
                              branch_taken_count |-> taken])
                 ELSE [pattern_stats EXCEPT
                         ![KeyIndex(pattern_stats, ip)] =
                             [@ EXCEPT
                                !.count = @ + 1,
                                !.idle_positions = @ \o positions,
                                !.branch_taken_count = @ + taken]]
         IN  Analyzer_pattern_stats(Tail(all_records), next)

RECURSIVE SumOf(_)
SumOf(numbers) ==
    IF numbers = << >> THEN 0 ELSE Head(numbers) + SumOf(Tail(numbers))

\* the line of state_pattern_summary.csv written for one branch ip; the
\* idle percentage divides by count * observation_window
Analyzer_summary_row(self, stats) ==
    LET count == stats.count
        avg_position ==
            Frac(SumOf(stats.idle_positions), Len(stats.idle_positions))
        idle_percentage ==
            Percent(Len(stats.idle_positions),
                    count * self.observation_window)
        branch_taken_ratio == Frac(stats.branch_taken_count, count)
    IN  IF idle_percentage = ZeroDivisionError
        THEN [raised |-> "ZeroDivisionError"]
        ELSE [raised |-> "none", Branch_IP |-> stats.key, Count |-> count,
              Avg_Idle_Position |-> Formatted(avg_position, 100),
              Idle_Time_Percent |-> Formatted(idle_percentage, 100),
              Branch_Taken_Ratio |-> Formatted(branch_taken_ratio, 100)]

\* the lines written before the first one that raises
RECURSIVE Analyzer_summary_rows(_, _)
Analyzer_summary_rows(self, pattern_stats) ==
    IF pattern_stats = << >> THEN << >>
    ELSE LET row == Analyzer_summary_row(self, Head(pattern_stats))
         IN  IF row.raised # "none" THEN << >>
             ELSE <<row>> \o Analyzer_summary_rows(self, Tail(pattern_stats))

\* hook_sim_end: the lines of the two files it writes and the exception
\* that ends it, if any; the analyzer itself is left as it is
Analyzer_hook_sim_end(self) ==
    LET all_completed_records ==
            Analyzer_all_completed_records(self, DOMAIN self.core_analyzers)
        pattern_stats == Analyzer_pattern_stats(all_completed_records, << >>)
        summary == Analyzer_summary_rows(self, pattern_stats)
    IN  [raised |-> IF Len(summary) < Len(pattern_stats)
                    THEN "ZeroDivisionError" ELSE "none",
         patterns |-> [i \in 1..Len(all_completed_records) |->
                          Analyzer_pattern_row(all_completed_records[i])],
         summary |-> summary,
         total_records |-> Len(all_completed_records),
         total_branches |-> self.total_branches]

\* branches recorded plus samples taken
AnalyzerEvents == analyzer.total_branches + Cardinality(Cores) * sim_time

AnalyzerHookPeriodic(time_delta, states) ==
    /\ script = "analysis_data_export"
    /\ Running
    /\ time_delta # 0 => AnalyzerEvents + Cardinality(Cores) <= MaxEvents
    /\ sim_time' = sim_time + time_delta
    /\ analyzer' = Analyzer_hook_periodic(analyzer, sim_time', time_delta,
                                          states)
    /\ hookLast' = PeriodicHook(time_delta, states)
    /\ UNCHANGED <<script, bmp, confVars, nbitVars, markovVars>>

AnalyzerHookBranch(core_id, branch) ==
    /\ script = "analysis_data_export"
    /\ Running
    /\ AnalyzerEvents + 1 <= MaxEvents
    /\ analyzer' = Analyzer_hook_branch_predictor(
                       analyzer, sim_time, core_id, branch[1], branch[3],
                       branch[2], branch[4])
    /\ hookLast' = BranchHook(core_id, branch)
    /\ UNCHANGED <<script, bmp, confVars, nbitVars, markovVars, sim_time>>

AnalyzerSimEnd ==
    /\ script = "analysis_data_export"
    /\ Running
    /\ hookLast' = SimEndHook(Analyzer_hook_sim_end(analyzer))
    /\ UNCHANGED <<script, bmp, confVars, nbitVars, markovVars, analyzer,
                   sim_time>>

(* ---------------------------------------------------------------------- *)
(* branch_markov_predictor.py: class BranchMarkovPredictor                 *)
(* ---------------------------------------------------------------------- *)
BranchMarkovPredictor_setup ==
    [branch_count |-> 0, taken_count |-> 0, not_taken_count |-> 0]

\* handle_branch; the text printed at every thousandth branch is left out
BranchMarkov_handle_branch(self, ip, predicted, actual, indirect, core_id) ==
    LET counted == [self EXCEPT !.branch_count = @ + 1]
    IN  IF actual
        THEN [counted EXCEPT !.taken_count = @ + 1]
        ELSE [counted EXCEPT !.not_taken_count = @ + 1]

\* hook_sim_end: the lines printed; the third line divides by branch_count
\* and the exception of that division ends the hook
BranchMarkov_hook_sim_end(self) ==
    LET taken == Percent(self.taken_count, self.branch_count)
        not_taken == Percent(self.not_taken_count, self.branch_count)
    IN  IF taken = ZeroDivisionError
        THEN [raised |-> "ZeroDivisionError",
              lines |-> <<"Final Statistics", self.branch_count>>]
        ELSE [raised |-> "none",
              lines |-> <<"Final Statistics", self.branch_count,
                          <<self.taken_count, Formatted(taken, 100)>>,
                          <<self.not_taken_count,
                            Formatted(not_taken, 100)>>>>]

BranchMarkovHandleBranch(core_id, branch) ==
    /\ script = "branch_markov_predictor"
    /\ Running
    /\ bmp.branch_count < MaxBranches
    /\ bmp' = BranchMarkov_handle_branch(bmp, branch[1], branch[3], branch[2],
                                         branch[4], core_id)
    /\ hookLast' = BranchHook(core_id, branch)
    /\ UNCHANGED <<script, confVars, nbitVars, markovVars, analyzer, sim_time>>

BranchMarkovSimEnd ==
    /\ script = "branch_markov_predictor"
    /\ Running
    /\ hookLast' = SimEndHook(BranchMarkov_hook_sim_end(bmp))
    /\ UNCHANGED <<script, bmp, confVars, nbitVars, markovVars, analyzer,
                   sim_time>>

(* ---------------------------------------------------------------------- *)
(* Specifications                                                          *)
(* ---------------------------------------------------------------------- *)
InitCsp ==
    /\ script = "acaps_csp"
    /\ \E hs \in 1..MaxHistorySize, th \in 0..MaxConfTh :
           csp = Csp_init(hs, th)
    /\ cspLast = NoCall
    /\ cspHits = << >>

IdleCsp ==
    /\ csp = Csp_init(1, 0)
    /\ cspLast = NoCall
    /\ cspHits = << >>

InitScsp ==
    /\ script \in {"acaps_scsp", "get_vdd_from_freq"}
    /\ \E idle \in IdleFreqs, th \in 0..MaxConfTh, f \in ConfigFreqs,
          n \in NumCores, tech \in TechNodes :
           /\ script = "acaps_scsp" => tech \in TickTechNodes
           /\ scsp = Scsp_setup(idle, th, f, n, tech)
           /\ core_freq = [c \in 0..(n - 1) |-> f]
    /\ scspLast = NoTick

IdleScsp ==
    /\ scsp = Scsp_setup(DefaultIdleFreq, 0, DefaultIdleFreq, 2, 22)
    /\ core_freq = [c \in Cores |-> DefaultIdleFreq]
    /\ scspLast = NoTick

InitNbp ==
    /\ script \in {"nbit_predictor", "nbit_log_prediction"}
    /\ \E n_bits \in 1..MaxBits : nbp = NbitPredictor_init(n_bits)
    /\ nbpLast = NoUpdate

IdleNbp ==
    /\ nbp = NbitPredictor_init(1)
    /\ nbpLast = NoUpdate

InitNbitMon ==
    /\ script = "nbit"
    /\ \E n_bits \in 1..MaxBits : nbit_mon = NbitMonitor_setup(n_bits)

IdleNbitMon == nbit_mon = NbitMonitor_setup(1)

InitMarkovMon ==
    /\ script = "csba_mcp"
    /\ markov_mon = MarkovMonitor_init
    /\ markovLast = NoMarkovCall

IdleMarkovMon == markov_mon = MarkovMonitor_init /\ markovLast = NoMarkovCall

InitMcp ==
    /\ script \in {"markov_predictor", "markov_log_prediction"}
    /\ mcp = MarkovChainPredictor_init
    /\ mcpLast = NoMcpCall

IdleMcp ==
    /\ mcp = MarkovChainPredictor_init
    /\ mcpLast = NoMcpCall

InitAnalyzer ==
    /\ script = "analysis_data_export"
    /\ \E observation_window \in ObservationWindows :
           analyzer = Analyzer_setup(observation_window)

IdleAnalyzer == analyzer = Analyzer_setup(0)

InitSim ==
    /\ sim_time = 0
    /\ hookLast = NoHook
    /\ bmp = BranchMarkovPredictor_setup

NextCsp ==
    \/ \E actual \in SampledStates : CspUpdate(actual)
    \/ \E prediction \in SampledStates \cup {None}, actual \in SampledStates :
           CspUpdateStats(prediction, actual)

NextScsp ==
    \/ \E time_delta \in {0, 1}, n \in NumCores :
           \E states \in [0..(n - 1) -> SampledStates] :
               ScspPeriodic(time_delta, states)
    \/ ScspSimEnd
    \/ \E f \in Frequencies : ScspGetVdd(f)

NextNbit ==
    \/ \E event \in {0, 1} : NbitUpdate(event)
    \/ \E predicted_idle \in Predictions, actual_idle \in BOOLEAN :
           NbpLogPrediction(0, predicted_idle, actual_idle)
    \/ \E time_delta \in {0, 1}, states \in [Cores -> MonitorStates] :
           NbitHookPeriodic(time_delta, states)
    \/ \E core_id \in Cores, branch \in Branches :
           NbitHookBranch(core_id, branch)
    \/ NbitSimEnd

NextMarkov ==
    \/ \E core_id \in Cores, branch_state \in BranchStates,
          encountered_states \in EncounteredStates :
           McpUpdateChain(core_id, branch_state, encountered_states)
    \/ McpDumpTransitionStats
    \/ \E core_id \in Cores, predicted_idle \in Predictions,
          actual_idle \in BOOLEAN :
           McpLogPrediction(core_id, predicted_idle, actual_idle)
    \/ \E time_delta \in {0, 1}, states \in [Cores -> MonitorStates] :
           MarkovHookPeriodic(time_delta, states)
    \/ \E core_id \in Cores, branch \in Branches :
           MarkovHookBranch(core_id, branch)
    \/ MarkovSimEnd

NextAnalyzer ==
    \/ \E time_delta \in {0, 1}, states \in [Cores -> MonitorStates] :
           AnalyzerHookPeriodic(time_delta, states)
    \/ \E core_id \in Cores, branch \in Branches :
           AnalyzerHookBranch(core_id, branch)
    \/ AnalyzerSimEnd

IdleConf == IdleCsp /\ IdleScsp
IdleNbit == IdleNbp /\ IdleNbitMon
IdleMarkov == IdleMcp /\ IdleMarkovMon

\* the confidence predictor: Csp on its own, and Csp inside Scsp
InitConf ==
    /\ (InitCsp /\ IdleScsp) \/ (InitScsp /\ IdleCsp)
    /\ IdleNbit /\ IdleMarkov /\ IdleAnalyzer /\ InitSim
NextConf == NextCsp \/ NextScsp
SpecConf == InitConf /\ [][NextConf]_vars

\* the n-bit predictor: NbitPredictor on its own, and inside its monitor
InitNbit ==
    /\ (InitNbp /\ IdleNbitMon) \/ (InitNbitMon /\ IdleNbp)
    /\ IdleConf /\ IdleMarkov /\ IdleAnalyzer /\ InitSim
SpecNbit == InitNbit /\ [][NextNbit]_vars

\* the Markov predictor: MarkovChainPredictor on its own, and inside its
\* monitor
InitMarkov ==
    /\ (InitMcp /\ IdleMarkovMon) \/ (InitMarkovMon /\ IdleMcp)
    /\ IdleConf /\ IdleNbit /\ IdleAnalyzer /\ InitSim
SpecMarkov == InitMarkov /\ [][NextMarkov]_vars

\* the analyzer of analysis_data_export.py
InitAnalysis ==
    /\ InitAnalyzer
    /\ IdleConf /\ IdleNbit /\ IdleMarkov /\ InitSim
SpecAnalysis == InitAnalysis /\ [][NextAnalyzer]_vars

\* the script sim.scripts.py loads: BranchMarkovPredictor
InitBranchMarkov ==
    /\ script = "branch_markov_predictor"
    /\ IdleConf /\ IdleNbit /\ IdleMarkov /\ IdleAnalyzer /\ InitSim
NextBranchMarkov ==
    \/ \E core_id \in Cores, branch \in Branches :
           BranchMarkovHandleBranch(core_id, branch)
    \/ BranchMarkovSimEnd

\* a run of the simulator with any one of the scripts
Init == InitConf \/ InitNbit \/ InitMarkov \/ InitAnalysis
           \/ InitBranchMarkov
Next == NextConf \/ NextNbit \/ NextMarkov \/ NextAnalyzer
           \/ NextBranchMarkov
Spec == Init /\ [][Next]_vars

(* ---------------------------------------------------------------------- *)
(* Properties of the confidence predictor (SpecConf)                       *)
(* ---------------------------------------------------------------------- *)
Min(a, b) == IF a <= b THEN a ELSE b
TailOf(p) == p.history[Len(p.history)]
\* the step is a call of update on the stand-alone Csp
IsCspUpdate == cspLast'.op = "update" /\ Len(cspHits') = Len(cspHits) + 1
\* the cores Scsp was set up for
ScspCores == DOMAIN scsp.acsp
\* the step is a non-zero periodic tick of Scsp
IsScspTick ==
    /\ scspLast'.op = "periodic"
    /\ scspLast'.time_delta # 0
    /\ \A c \in ScspCores : scsp'.avg_core_frequency_cont[c]
                          = scsp.avg_core_frequency_cont[c] + 1
\* the state follows a non-zero periodic tick of Scsp
AfterScspTick == scspLast.op = "periodic" /\ scspLast.time_delta # 0

\* C1: the confidence counter of every Csp (stand-alone or inside Scsp)
\* satisfies 0 <= conf <= conf_th in every reachable state.
ConfInRange(p) == 0 <= p.conf /\ p.conf <= p.conf_th
C1_ConfWithinBounds ==
    /\ ConfInRange(csp)
    /\ \A c \in ScspCores : ConfInRange(scsp.acsp[c])

\* an update that matched arrived with the counter already at conf_th >= 1
C1_Witness ==
    /\ cspLast.op = "update"
    /\ csp.conf_th >= 1
    /\ cspLast.conf = csp.conf_th
    /\ cspLast.tail = cspLast.actual
    /\ csp.conf = csp.conf_th

\* C2: every update(actual) compares actual with the history tail as it was
\* before the update: equal gives conf' = min(conf + 1, conf_th), different
\* gives conf' = 0; then actual is pushed, evicting the oldest entry.  The
\* first update of a fresh predictor (tail None) leaves conf at 0.
UpdateEffect(p, q, actual) ==
    /\ q.conf = IF TailOf(p) = actual THEN Min(p.conf + 1, p.conf_th) ELSE 0
    /\ q.history = Append(Tail(p.history), actual)
    /\ TailOf(p) = None => q.conf = 0
C2_UpdateComparesOldTail ==
    [][ /\ IsCspUpdate => UpdateEffect(csp, csp', cspLast'.actual)
        /\ IsScspTick => \A c \in ScspCores :
               UpdateEffect(scsp.acsp[c], scsp'.acsp[c], scspLast'.states[c])
      ]_vars

\* a first update (miss on the placeholder), then a hit, then a miss that
\* resets the counter from 1 to 0
C2_Witness ==
    /\ cspLast.op = "update"
    /\ cspHits = <<FALSE, TRUE, FALSE>>
    /\ cspLast.conf = 1
    /\ csp.conf = 0

\* C3: is_predictable() is true exactly when conf >= conf_th; it is true
\* only if the last conf_th updates all matched the then-current tail; and
\* (conf_th >= 1) it is false right after any update that missed.
LastAllHits(hits, n) ==
    /\ Len(hits) >= n
    /\ \A i \in (Len(hits) - n + 1)..Len(hits) : hits[i]
C3_PredictableIffConfident ==
    /\ is_predictable(csp) = (csp.conf >= csp.conf_th)
    /\ is_predictable(csp) => LastAllHits(cspHits, csp.conf_th)
    /\ (cspLast.op = "update" /\ cspLast.tail # cspLast.actual
          /\ csp.conf_th >= 1) => ~is_predictable(csp)
    /\ AfterScspTick => \A c \in ScspCores :
          (TailOf(scspLast.acsp[c]) # scspLast.states[c]
             /\ scsp.acsp[c].conf_th >= 1) => ~is_predictable(scsp.acsp[c])

\* a predictor with conf_th = 2 was confident and a single miss reverted it
C3_Witness ==
    /\ csp.conf_th = 2
    /\ cspLast.op = "update"
    /\ cspLast.conf = 2
    /\ cspLast.tail # cspLast.actual
    /\ ~is_predictable(csp)

\* C4: while is_predictable() is false no call changes Correct or Incorrect
\* (update_stats returns at once for every prediction/actual pair), and a
\* tick of Scsp.periodic changes a core's Correct/Incorrect only if that
\* core's predictor was predictable before the tick's update.
C4_StatsGated ==
    [][ /\ ~is_predictable(csp) => csp'.stats = csp.stats
        /\ \A c \in ScspCores :
             scsp'.acsp[c].stats # scsp.acsp[c].stats
                => is_predictable(scsp.acsp[c])
      ]_vars

\* update_stats was called with a matching pair on an unconfident predictor
C4_Witness ==
    /\ cspLast.op = "update_stats"
    /\ cspLast.prediction = cspLast.actual
    /\ cspLast.conf < csp.conf_th
    /\ csp.stats.Correct = 0

\* C5: per core, a non-zero tick runs, in this order: the corrective
\* adjust_frequency(actual) iff the predictor was predictable before the
\* update and its prediction differs from the observed state; the update,
\* always; the proactive adjust_frequency(new prediction) iff the predictor
\* is predictable after the update.
IsControlStep(e) == e[2] \in {"adjust_frequency", "update"}
CoreSteps(c) ==
    SelectSeq(scspLast.trace, LAMBDA e : e[1] = c /\ IsControlStep(e))
ExpectedSteps(c) ==
    LET pre == scspLast.acsp[c]
        actual == scspLast.states[c]
        post == scsp.acsp[c]
    IN  (IF is_predictable(pre) /\ predict_next_value(pre) # actual
         THEN << <<c, "adjust_frequency", actual>> >> ELSE << >>)
        \o << <<c, "update", actual>> >>
        \o (IF is_predictable(post)
            THEN << <<c, "adjust_frequency", predict_next_value(post)>> >>
            ELSE << >>)
C5_TickOrder ==
    AfterScspTick => \A c \in ScspCores : CoreSteps(c) = ExpectedSteps(c)

\* with conf_th >= 1, one tick took the corrective action on core 0 and
\* the proactive action on core 1
C5_Witness ==
    /\ AfterScspTick
    /\ scsp.num_cores = 2
    /\ scsp.acsp[0].conf_th >= 1
    /\ CoreSteps(0) = << <<0, "adjust_frequency", IDLE>>,
                         <<0, "update", IDLE>> >>
    /\ CoreSteps(1) = << <<1, "update", IDLE>>,
                         <<1, "adjust_frequency", IDLE>> >>

\* C6: adjust_frequency(core, state) targets the idle frequency for IDLE and
\* the nominal frequency otherwise, calls set_frequency only when the target
\* differs from the core's frequency, leaves the core at the target, and a
\* second identical call issues no set_frequency.
Target(state) ==
    IF state = IDLE THEN scsp.idle_freq_mhz ELSE scsp.config_freq_mhz
Sets(trace) == SelectSeq(trace, LAMBDA e : e[2] = "set_frequency")
\* the calls adjust_frequency made in the last tick
AdjustCallOk(t, i) ==
    LET c == t[i][1]
        target == Target(t[i][3])
        before == t[i + 1][3]
        issued == i + 2 <= Len(t) /\ t[i + 2][2] = "set_frequency"
    IN  /\ t[i + 1] = <<c, "get_frequency", before>>
        /\ issued = (before # target)
        /\ issued => t[i + 2] = <<c, "set_frequency", target>>
        /\ (\A j \in (i + 1)..Len(t) :
              ~(t[j][1] = c /\ t[j][2] = "adjust_frequency"))
             => core_freq[c] = target
C6_AdjustFrequency ==
    /\ \A i \in 1..Len(scspLast.trace) :
          scspLast.trace[i][2] = "adjust_frequency"
             => AdjustCallOk(scspLast.trace, i)
    /\ Len(Sets(scspLast.trace))
          <= Cardinality({i \in 1..Len(scspLast.trace) :
                             scspLast.trace[i][2] = "adjust_frequency"})
    /\ \A c \in ScspCores, state \in SampledStates :
          LET m0 == [scsp |-> scsp, freq |-> core_freq, trace |-> << >>]
              m1 == adjust_frequency(m0, c, state)
              m2 == adjust_frequency(m1, c, state)
          IN  /\ m1.freq[c] = Target(state)
              /\ (Sets(m1.trace) # << >>) = (core_freq[c] # Target(state))
              /\ m2.freq = m1.freq
              /\ Sets(m2.trace) = Sets(m1.trace)

\* one tick in which an adjust_frequency call lowered a core to the idle
\* frequency and another call found its core already at the target
C6_Witness ==
    /\ AfterScspTick
    /\ scsp.idle_freq_mhz # scsp.config_freq_mhz
    /\ \E i \in 1..Len(scspLast.trace) :
          scspLast.trace[i] = <<0, "set_frequency", scsp.idle_freq_mhz>>
    /\ \E i \in 1..Len(scspLast.trace) :
          /\ scspLast.trace[i][1] = 1
          /\ scspLast.trace[i][2] = "adjust_frequency"
          /\ ~(i + 2 <= Len(scspLast.trace)
                 /\ scspLast.trace[i + 2][2] = "set_frequency")

\* C21: for every history_size >= 1, after at least one update
\* predict_next_value() returns the state passed to the most recent update;
\* before any update it returns the empty placeholder None.
LastSeen(seen) == IF seen = << >> THEN None ELSE seen[Len(seen)]
C21_PredictsLastUpdate ==
    /\ script = "acaps_csp" =>
          predict_next_value(csp) = LastSeen(cspLast.seen)
    /\ script = "acaps_scsp" => \A c \in ScspCores :
          /\ scsp.avg_core_frequency_cont[c] = 0 =>
                predict_next_value(scsp.acsp[c]) = None
          /\ AfterScspTick =>
                predict_next_value(scsp.acsp[c]) = scspLast.states[c]

\* a Csp with history_size 2 was updated with IDLE then RUNNING and
\* predicts RUNNING
C21_Witness ==
    /\ script = "acaps_csp"
    /\ csp.history_size = 2
    /\ cspLast.seen = <<IDLE, RUNNING>>
    /\ predict_next_value(csp) = RUNNING

\* C22: Scenario A.  With conf_th = 2 and history_size = 1, the ticks
\* RUNNING, RUNNING, RUNNING, IDLE run through Scsp.periodic give conf = 2,
\* is_predictable() true and prediction RUNNING after the third update; the
\* fourth tick (actual IDLE) resets conf to 0, makes is_predictable() false
\* and adds exactly one to Incorrect and nothing to Correct.
ScenarioAThird(p) ==
    /\ p.conf = 2
    /\ is_predictable(p)
    /\ predict_next_value(p) = RUNNING
ScenarioAFourth(p, q) ==
    /\ q.conf = 0
    /\ ~is_predictable(q)
    /\ q.stats.Incorrect = p.stats.Incorrect + 1
    /\ q.stats.Correct = p.stats.Correct
C22_ScenarioA ==
    [][ IsScspTick => \A c \in ScspCores :
          (scsp.acsp[c].conf_th = 2 /\ scsp.acsp[c].history_size = 1) =>
            /\ scspLast'.seen[c] = <<RUNNING, RUNNING, RUNNING>>
                  => ScenarioAThird(scsp'.acsp[c])
            /\ scspLast'.seen[c] = <<RUNNING, RUNNING, RUNNING, IDLE>>
                  => ScenarioAFourth(scsp.acsp[c], scsp'.acsp[c])
      ]_vars

\* the fourth tick of the scenario has run on core 0: one misprediction
\* and no correct prediction are on record
C22_Witness ==
    /\ script = "acaps_scsp"
    /\ AfterScspTick
    /\ scsp.acsp[0].conf_th = 2
    /\ scspLast.seen[0] = <<RUNNING, RUNNING, RUNNING, IDLE>>
    /\ scsp.acsp[0].stats = [Correct |-> 0, Incorrect |-> 1]
    /\ scsp.acsp[0].conf = 0

\* C23: a technology node other than 22 or 45 makes build_dvfs_table raise
\* a fatal error during Scsp.setup, before the periodic callback is
\* registered and before any per-core predictor or average-frequency
\* accumulator is created; no retry is attempted (nothing runs afterwards).
SetupRaised == scsp.raised = "ValueError"
NothingCreated ==
    /\ ~scsp.registered
    /\ scsp.acsp = << >>
    /\ scsp.avg_core_frequency = << >>
    /\ scsp.avg_core_frequency_cont = << >>
    /\ scsp.dvfs_table = << >>
C23_BadTechNodeAbortsSetup ==
    script \in {"acaps_scsp", "get_vdd_from_freq"} =>
        /\ \A tech \in TechNodes :
              (build_dvfs_table(tech).raised = "ValueError")
                 = (tech \notin {22, 45})
        /\ SetupRaised = (scsp.dvfs_table = << >>)
        /\ SetupRaised =>
              /\ NothingCreated
              /\ scspLast = NoTick
              /\ hookLast = NoHook
              /\ ~ENABLED NextScsp

\* Scsp was set up for a 32 nm node: setup raised and left nothing behind
C23_Witness ==
    /\ script = "acaps_scsp"
    /\ build_dvfs_table(32).raised = "ValueError"
    /\ SetupRaised
    /\ NothingCreated

\* C24: when a requested frequency is lower than every frequency in the
\* DVFS table, get_vdd_from_freq ends in a fatal error and does not return
\* a value to its caller.
BelowTable(table, f) == \A i \in 1..Len(table) : f < table[i][1]
C24_NoVddIsFatal ==
    (scspLast.op = "get_vdd_from_freq"
       /\ BelowTable(scsp.dvfs_table, scspLast.f)) =>
        scspLast.vdd.raised # "none"

\* C29: with conf_th >= 1, after Scsp.periodic has processed a non-zero
\* tick for a core, if that core's predictor was predictable at the start of
\* the tick or is predictable after the update, the core's frequency equals
\* the policy target for the state actually observed in that tick (idle
\* frequency if it was IDLE, nominal otherwise); and within one tick the
\* corrective and the proactive frequency action are never both taken.
PolicyTarget(state) ==
    IF state = IDLE THEN scsp.idle_freq_mhz ELSE scsp.config_freq_mhz
AdjustCalls(c) ==
    SelectSeq(scspLast.trace,
              LAMBDA e : e[1] = c /\ e[2] = "adjust_frequency")
C29_FrequencyFollowsObservedState ==
    AfterScspTick => \A c \in ScspCores :
        scsp.acsp[c].conf_th >= 1 =>
            /\ (is_predictable(scspLast.acsp[c])
                  \/ is_predictable(scsp.acsp[c]))
                  => core_freq[c] = PolicyTarget(scspLast.states[c])
            /\ Len(AdjustCalls(c)) <= 1

\* a confident predictor (conf_th >= 1) expected a running core, the core
\* was observed IDLE, and the corrective action alone lowered it to the
\* idle frequency
C29_Witness ==
    /\ AfterScspTick
    /\ scsp.acsp[0].conf_th >= 1
    /\ is_predictable(scspLast.acsp[0])
    /\ ~is_predictable(scsp.acsp[0])
    /\ scspLast.states[0] = IDLE
    /\ scspLast.freq[0] = scsp.config_freq_mhz
    /\ scsp.idle_freq_mhz # scsp.config_freq_mhz
    /\ core_freq[0] = scsp.idle_freq_mhz
    /\ AdjustCalls(0) = << <<0, "adjust_frequency", IDLE>> >>

\* C28: for every history_size >= 1 and every sequence of k updates the
\* history has exactly history_size entries and holds the last
\* min(k, history_size) observed states in arrival order at its tail, with
\* None in front while k < history_size: each update evicts exactly the
\* oldest entry and no operation other than update changes the history.
HistoryOf(history_size, seen) ==
    [i \in 1..history_size |->
        IF Len(seen) - history_size + i >= 1
        THEN seen[Len(seen) - history_size + i] ELSE None]
C28_HistoryIsFifo ==
    /\ script = "acaps_csp" =>
          /\ Len(csp.history) = csp.history_size
          /\ csp.history = HistoryOf(csp.history_size, cspLast.seen)
    /\ script = "acaps_scsp" => \A c \in ScspCores :
          /\ Len(scsp.acsp[c].history) = 1
          /\ scsp.avg_core_frequency_cont[c] = 0 =>
                scsp.acsp[c].history = <<None>>
          /\ AfterScspTick => scsp.acsp[c].history = <<scspLast.states[c]>>

\* a Csp with history_size 2 saw three updates and then an update_stats:
\* the first state was evicted and the last two are kept in order
C28_Witness ==
    /\ script = "acaps_csp"
    /\ csp.history_size = 2
    /\ cspLast.op = "update_stats"
    /\ cspLast.seen = <<RUNNING, STALLED, IDLE>>
    /\ csp.history = <<STALLED, IDLE>>

(* ---------------------------------------------------------------------- *)
(* Properties of the n-bit predictor (SpecNbit)                            *)
(* ---------------------------------------------------------------------- *)
\* the event hook_periodic feeds to update for a sampled state
EventOf(state_id) == IF state_id = IDLE THEN 0 ELSE 1
\* the step is a non-zero periodic tick of the n-bit monitor
IsNbitTick ==
    /\ script = "nbit"
    /\ hookLast'.op = "periodic"
    /\ hookLast'.time_delta # 0
    /\ nbit_mon'.global_event_id # nbit_mon.global_event_id

\* C8: the counter of every NbitPredictor stays within [0, 2^n - 1]; ACTIVE
\* (1) at the maximum and IDLE (0) at 0 leave it unchanged; otherwise ACTIVE
\* adds exactly 1 and IDLE subtracts exactly 1.
CounterInRange(p) == 0 <= p.state /\ p.state <= Pow2(p.n_bits) - 1
CounterStep(p, q, event) ==
    LET max == Pow2(p.n_bits) - 1
    IN  /\ CounterInRange(p) /\ CounterInRange(q)
        /\ event = 1 => q.state = IF p.state = max THEN max ELSE p.state + 1
        /\ event = 0 => q.state = IF p.state = 0 THEN 0 ELSE p.state - 1
C8_CounterSaturates ==
    [][ /\ (script = "nbit_predictor" /\ nbpLast'.op = "update")
              => CounterStep(nbp, nbp', nbpLast'.event)
        /\ IsNbitTick => \A c \in Cores :
              CounterStep(nbit_mon.nbit_predictors[c],
                          nbit_mon'.nbit_predictors[c],
                          EventOf(hookLast'.states[c]))
      ]_vars

\* a 2-bit counter at its maximum 3 received ACTIVE and stayed at 3
C8_Witness ==
    /\ nbp.n_bits = 2
    /\ nbpLast.op = "update" /\ nbpLast.event = 1 /\ nbpLast.state = 3
    /\ nbp.state = 3

\* C9: for every bit width n and every counter value c in [0, 2^n - 1],
\* predict_idle() is true iff c < (2^n - 1) // 2; every prediction the
\* monitor logs follows the same rule.
IdleRule(n_bits, c) == c < ((Pow2(n_bits) - 1) \div 2)
LowerHalf(n_bits, c) == c < Pow2(n_bits - 1)
C10_HalvesSplit ==
    /\ (script = "nbit_predictor" /\ nbpLast.op = "update")
          => Nbit_predict_idle(nbp) = LowerHalf(nbp.n_bits, nbp.state)
    /\ script = "nbit" => \A core_id \in Cores :
          LET p == nbit_mon.nbit_predictors[core_id]
              log == p.prediction_log
          IN  log # << >> =>
                 log[Len(log)].predicted_idle =
                     PyBool(LowerHalf(p.n_bits, p.state))

\* C11: scenario B: a fresh NbitPredictor with n = 2 fed ACTIVE, ACTIVE,
\* ACTIVE, ACTIVE, IDLE takes the counter values 0, 1, 2, 3, 3, 2 and its
\* five successive predictions are idle, idle, active, active, active
\* (whether each prediction is read just before or just after its update).
ScenarioB ==
    /\ script = "nbit_predictor"
    /\ nbp.n_bits = 2
    /\ nbpLast.events = <<1, 1, 1, 1, 0>>
ScenarioBCounterPath == ScenarioB => nbpLast.states = <<0, 1, 2, 3, 3, 2>>
C11_ScenarioB ==
    ScenarioB =>
        /\ nbpLast.states = <<0, 1, 2, 3, 3, 2>>
        /\ \/ nbpLast.predicted = <<TRUE, TRUE, FALSE, FALSE, FALSE>>
           \/ nbpLast.predicted_before = <<TRUE, TRUE, FALSE, FALSE, FALSE>>

\* C30: in the n-bit monitor's hook_periodic the counter is updated with
\* the current sample before the prediction for that same sample is taken
\* and logged: every logged predicted_idle is computed from the counter
\* value that already includes the actual state it is scored against.
CounterAfter(p, event) ==
    LET max == Pow2(p.n_bits) - 1
    IN  IF event = 1
        THEN (IF p.state < max THEN p.state + 1 ELSE p.state)
        ELSE (IF p.state > 0 THEN p.state - 1 ELSE p.state)
LoggedAfterUpdate(p, q, state_id) ==
    LET entry == q.prediction_log[Len(q.prediction_log)]
    IN  /\ Len(q.prediction_log) = Len(p.prediction_log) + 1
        /\ q.state = CounterAfter(p, EventOf(state_id))
        /\ entry.actual_idle = (state_id = IDLE)
        /\ entry.predicted_idle =
               PyBool(IdleRule(p.n_bits, CounterAfter(p, EventOf(state_id))))
C30_UpdateBeforePredict ==
    [][ IsNbitTick => \A c \in Cores :
          LoggedAfterUpdate(nbit_mon.nbit_predictors[c],
                            nbit_mon'.nbit_predictors[c],
                            hookLast'.states[c])
      ]_vars

\* a 2-bit counter at 1 (predicting active) was given an idle sample: the
\* counter went to 0 and the prediction logged for that sample is idle
C30_Witness ==
    /\ script = "nbit"
    /\ nbit_mon.n_bits = 2
    /\ hookLast.op = "periodic"
    /\ hookLast.states[0] = IDLE
    /\ nbit_mon.nbit_predictors[0].state = 0
    /\ Len(nbit_mon.nbit_predictors[0].prediction_log) = 2
    /\ nbit_mon.nbit_predictors[0].prediction_log[1].predicted_idle = "False"
    /\ nbit_mon.nbit_predictors[0].prediction_log[2].predicted_idle = "True"
    /\ nbit_mon.nbit_predictors[0].prediction_log[2].actual_idle

(* ---------------------------------------------------------------------- *)
(* Properties of the Markov predictor (SpecMarkov)                         *)
(* ---------------------------------------------------------------------- *)
\* the keys of a transition table, and the record of a key
KeysOf(stats) == {stats[i].key : i \in 1..Len(stats)}
RecordOf(stats, key) ==
    LET i == CHOOSE j \in 1..Len(stats) : stats[j].key = key
    IN  stats[i]
\* the prediction log and its counters
PredictionStats(p) ==
    <<p.prediction_log, p.num_predictions_made, p.num_predictions_correct,
      p.num_predictions_idle, p.num_predictions_active>>
\* the step is a call of update_chain on the stand-alone predictor
IsMcpUpdateChain ==
    /\ script = "markov_predictor"
    /\ mcpLast'.op = "update_chain"
    /\ McpCalls' = McpCalls + 1
\* the step is a branch event delivered to the Markov monitor
IsMarkovBranch ==
    /\ script = "csba_mcp"
    /\ hookLast'.op = "branch"
    /\ markov_mon'.global_event_id = markov_mon.global_event_id + 1

\* C12: the first branch event of a core only sets last_branch_state[core]:
\* the transition table (key set, every count and idle_count) is unchanged
\* by that update_chain, whatever encountered_states holds and whatever
\* other cores have recorded; the other cores' last states and the
\* prediction statistics are unchanged too.
FirstBranchEffect(p, q, core_id, branch_state) ==
    core_id \notin DOMAIN p.last_branch_state =>
        /\ q.transition_stats = p.transition_stats
        /\ DOMAIN q.last_branch_state =
               DOMAIN p.last_branch_state \cup {core_id}
        /\ q.last_branch_state[core_id] = branch_state
        /\ \A c \in DOMAIN p.last_branch_state :
               q.last_branch_state[c] = p.last_branch_state[c]
        /\ PredictionStats(q) = PredictionStats(p)
C12_FirstBranchOnlySeeds ==
    [][ /\ IsMcpUpdateChain =>
              FirstBranchEffect(mcp, mcp', mcpLast'.core_id,
                                mcpLast'.branch_state)
        /\ IsMarkovBranch =>
              FirstBranchEffect(markov_mon.markov_predictor,
                                markov_mon'.markov_predictor,
                                hookLast'.core_id,
                                <<hookLast'.branch[1], hookLast'.branch[2]>>)
      ]_vars

\* core 1 made its first branch, passing an IDLE state, after core 0 had
\* recorded a transition: the table still holds that one record only
C12_Witness ==
    /\ script = "markov_predictor"
    /\ mcpLast.op = "update_chain" /\ mcpLast.core_id = 1
    /\ mcpLast.encountered_states = <<IDLE>>
    /\ DOMAIN mcp.last_branch_state = {0, 1}
    /\ Len(mcp.transition_stats) = 1
    /\ mcp.branches_taken + mcp.branches_not_taken = 3

\* C13: for the second and every later branch of a core, update_chain(core,
\* sig, states) adds 1 to count of exactly the record keyed (previous last
\* state of the core, sig), created at 0 if absent, adds 1 to its idle_count
\* iff some element of states is IDLE (5), leaves every other record
\* unchanged, and sets last_branch_state[core] to sig.
OldCount(stats, key, f) ==
    IF key \in KeysOf(stats) THEN RecordOf(stats, key)[f] ELSE 0
LaterBranchCounts(p, q, core_id, branch_state) ==
    LET key == <<p.last_branch_state[core_id], branch_state>>
    IN  /\ KeysOf(q.transition_stats) = KeysOf(p.transition_stats) \cup {key}
        /\ Len(q.transition_stats) = Cardinality(KeysOf(q.transition_stats))
        /\ RecordOf(q.transition_stats, key).count =
               OldCount(p.transition_stats, key, "count") + 1
        /\ \A k \in KeysOf(p.transition_stats) \ {key} :
               RecordOf(q.transition_stats, k) =
                   RecordOf(p.transition_stats, k)
        /\ q.last_branch_state =
               [p.last_branch_state EXCEPT ![core_id] = branch_state]
IdleAdded(p, q, core_id, branch_state) ==
    LET key == <<p.last_branch_state[core_id], branch_state>>
    IN  RecordOf(q.transition_stats, key).idle_count
            - OldCount(p.transition_stats, key, "idle_count")
C13_LaterBranchRecords ==
    [][ /\ (IsMcpUpdateChain
             /\ mcpLast'.core_id \in DOMAIN mcp.last_branch_state) =>
              /\ LaterBranchCounts(mcp, mcp', mcpLast'.core_id,
                                   mcpLast'.branch_state)
              /\ IdleAdded(mcp, mcp', mcpLast'.core_id,
                           mcpLast'.branch_state) =
                   IF \E i \in 1..Len(mcpLast'.encountered_states) :
                          mcpLast'.encountered_states[i] = IDLE
                   THEN 1 ELSE 0
        /\ (IsMarkovBranch
             /\ hookLast'.core_id
                    \in DOMAIN markov_mon.markov_predictor.last_branch_state)
             => /\ LaterBranchCounts(
                       markov_mon.markov_predictor,
                       markov_mon'.markov_predictor, hookLast'.core_id,
                       <<hookLast'.branch[1], hookLast'.branch[2]>>)
                /\ IdleAdded(
                       markov_mon.markov_predictor,
                       markov_mon'.markov_predictor, hookLast'.core_id,
                       <<hookLast'.branch[1], hookLast'.branch[2]>>)
                     \in {0, 1}
      ]_vars

\* a later branch of core 0 passed <<RUNNING, IDLE>> and hit an existing
\* record while another record is in the table
C13_Witness ==
    /\ script = "markov_predictor"
    /\ mcpLast.op = "update_chain" /\ mcpLast.core_id = 0
    /\ mcpLast.encountered_states = <<RUNNING, IDLE>>
    /\ Len(mcp.transition_stats) = 2
    /\ \E i \in 1..2 :
          /\ mcp.transition_stats[i].key[2] = mcpLast.branch_state
          /\ mcp.transition_stats[i].count = 2
          /\ mcp.transition_stats[i].idle_count = 1

\* C14: in every reachable state of MarkovChainPredictor, after any
\* interleaving of branch events of the cores, every transition record
\* satisfies 0 <= idle_count <= count.
IdleCountBounded(p) ==
    \A i \in 1..Len(p.transition_stats) :
        /\ 0 <= p.transition_stats[i].idle_count
        /\ p.transition_stats[i].idle_count <= p.transition_stats[i].count
C14_IdleCountAtMostCount ==
    /\ IdleCountBounded(mcp)
    /\ IdleCountBounded(markov_mon.markov_predictor)

\* both cores have made branches and a record hit twice has seen IDLE on
\* one of its two transitions only
C14_Witness ==
    /\ script = "markov_predictor"
    /\ DOMAIN mcp.last_branch_state = {0, 1}
    /\ \E i \in 1..Len(mcp.transition_stats) :
          /\ mcp.transition_stats[i].count = 2
          /\ mcp.transition_stats[i].idle_count = 1
    /\ \E i \in 1..Len(mcp.transition_stats) :
          /\ mcp.transition_stats[i].count = 1
          /\ mcp.transition_stats[i].idle_count = 1

\* C15: predict_idle(core) returns None iff the transition table holds no
\* record whose source equals last_branch_state[core], which includes the
\* case that the core has seen no branch yet.
HasSource(p, core_id) ==
    /\ core_id \in DOMAIN p.last_branch_state
    /\ \E k \in KeysOf(p.transition_stats) :
          k[1] = p.last_branch_state[core_id]
UnknownIffNoSource(p) ==
    \A core_id \in Cores :
        (Markov_predict_idle(p, core_id) = "None") <=> ~HasSource(p, core_id)
C15_UnknownIffNoSource ==
    /\ UnknownIffNoSource(mcp)
    /\ UnknownIffNoSource(markov_mon.markov_predictor)

\* the table is not empty; core 0 sits on a state no record starts from and
\* gets None, core 1 sits on a recorded source and gets a prediction
C15_Witness ==
    /\ script = "markov_predictor"
    /\ DOMAIN mcp.last_branch_state = {0, 1}
    /\ mcp.transition_stats # << >>
    /\ Markov_predict_idle(mcp, 0) = "None"
    /\ Markov_predict_idle(mcp, 1) # "None"

\* C16: when some record has the core's last state as source,
\* predict_idle(core) is True iff the sum of idle_count over all those
\* records is more than half the sum of their count (2 * idle_sum >
\* count_sum); at exactly one half it is False.
RECURSIVE SourceSum(_, _, _, _)
SourceSum(stats, n, prev, f) ==
    IF n = 0 THEN 0
    ELSE SourceSum(stats, n - 1, prev, f)
         + (IF stats[n].key[1] = prev THEN stats[n][f] ELSE 0)
IdleSum(p, core_id) ==
    SourceSum(p.transition_stats, Len(p.transition_stats),
              p.last_branch_state[core_id], "idle_count")
CountSum(p, core_id) ==
    SourceSum(p.transition_stats, Len(p.transition_stats),
              p.last_branch_state[core_id], "count")
MajorityRule(p) ==
    \A core_id \in Cores :
        HasSource(p, core_id) =>
            Markov_predict_idle(p, core_id) =
                IF 2 * IdleSum(p, core_id) > CountSum(p, core_id)
                THEN "True" ELSE "False"
C16_IdleIffMoreThanHalf ==
    /\ MajorityRule(mcp)
    /\ MajorityRule(markov_mon.markov_predictor)

\* two records start from core 1's last state, with counts summing to 2
\* and idle counts summing to 1: exactly one half, predicted not idle
C16_Witness ==
    /\ script = "markov_predictor"
    /\ HasSource(mcp, 1)
    /\ Cardinality({k \in KeysOf(mcp.transition_stats) :
                       k[1] = mcp.last_branch_state[1]}) = 2
    /\ CountSum(mcp, 1) = 2
    /\ IdleSum(mcp, 1) = 1
    /\ Markov_predict_idle(mcp, 1) = "False"

\* C17: the transition table is shared by all cores.  For every pair of
\* branch states (a, b) the record (a, b) counts the consecutive branches
\* a then b of every core, in any interleaving of the cores' events, and its
\* idle_count counts those with an IDLE sample of that core in between: two
\* cores each producing sig_A then sig_B, one with an IDLE sample between
\* and one without, leave count = 2 and idle_count = 1.  predict_idle of a
\* core whose last state is sig_A uses the sums over every destination
\* recorded from sig_A by every core.
\* the consecutive branches of one core in the branch log, as index pairs
BranchPairs(mon) ==
    LET log == mon.branch_log
    IN  {ij \in (1..Len(log)) \X (1..Len(log)) :
            /\ ij[1] < ij[2]
            /\ log[ij[1]][2] = log[ij[2]][2]
            /\ \A k \in (ij[1] + 1)..(ij[2] - 1) : log[k][2] # log[ij[1]][2]}
SigAt(mon, i) == <<mon.branch_log[i][3], mon.branch_log[i][4]>>
IdleBetween(mon, ij) ==
    \E n \in 1..Len(mon.core_state_log) :
        LET e == mon.core_state_log[n]
        IN  /\ e[2] = mon.branch_log[ij[1]][2]
            /\ mon.branch_log[ij[1]][1] < e[1]
            /\ e[1] < mon.branch_log[ij[2]][1]
            /\ e[3] = IDLE
\* of the pairs, those from branch state a to branch state b
PairsOf(mon, pairs, key) ==
    {ij \in pairs :
        SigAt(mon, ij[1]) = key[1] /\ SigAt(mon, ij[2]) = key[2]}
PairsFrom(mon, pairs, a) == {ij \in pairs : SigAt(mon, ij[1]) = a}
TableMatchesLogs(mon) ==
    LET stats == mon.markov_predictor.transition_stats
        pairs == BranchPairs(mon)
        idle == {ij \in pairs : IdleBetween(mon, ij)}
    IN  /\ KeysOf(stats) \subseteq BranchStates \X BranchStates
        /\ \A key \in BranchStates \X BranchStates :
              /\ OldCount(stats, key, "count") =
                     Cardinality(PairsOf(mon, pairs, key))
              /\ OldCount(stats, key, "idle_count") =
                     Cardinality(PairsOf(mon, idle, key))
PredictionUsesAllCores(mon) ==
    LET pairs == BranchPairs(mon)
        idle == {ij \in pairs : IdleBetween(mon, ij)}
    IN  \A core_id \in DOMAIN mon.markov_predictor.last_branch_state :
            LET a == mon.markov_predictor.last_branch_state[core_id]
                from == Cardinality(PairsFrom(mon, pairs, a))
                idle_from == Cardinality(PairsFrom(mon, idle, a))
            IN  Markov_predict_idle(mon.markov_predictor, core_id) =
                    IF from = 0 THEN "None"
                    ELSE IF 2 * idle_from > from THEN "True" ELSE "False"
C17_TableSharedByCores ==
    script = "csba_mcp" =>
        /\ TableMatchesLogs(markov_mon)
        /\ PredictionUsesAllCores(markov_mon)

\* both cores branched at ip 1 (taken), a tick sampled core 0 IDLE and
\* core 1 RUNNING, then both cores branched at ip 2 (not taken): the one
\* record has count 2 and idle_count 1
C17_Witness ==
    /\ script = "csba_mcp"
    /\ Len(markov_mon.branch_log) = 4
    /\ DOMAIN markov_mon.markov_predictor.last_branch_state = Cores
    /\ \A c \in Cores :
          markov_mon.markov_predictor.last_branch_state[c] = <<2, FALSE>>
    /\ Len(markov_mon.core_state_log) = 2
    /\ markov_mon.core_state_log[1][3] = IDLE
    /\ markov_mon.core_state_log[2][3] = RUNNING
    /\ markov_mon.markov_predictor.transition_stats =
          <<[key |-> <<(<<1, TRUE>>), (<<2, FALSE>>)>>, count |-> 2,
             idle_count |-> 1]>>

\* C27: the state list hook_branch_predictor passes to update_chain for a
\* branch on core c is exactly the states sampled for core c by periodic
\* ticks after core c's previous branch event and before this one, in
\* order: samples of other cores, samples taken before the previous branch
\* of c, and samples taken when c has no previous branch are never included.
SampledSinceBranch(c) ==
    IF c \in markovLast.branched THEN markovLast.since[c] ELSE << >>
C27_StatesSinceLastBranch ==
    [][ IsMarkovBranch =>
          LET c == hookLast'.core_id
              branch_state == <<hookLast'.branch[1], hookLast'.branch[2]>>
          IN  /\ markovLast'.op = "update_chain"
              /\ markovLast'.core_id = c
              /\ markovLast'.branch_state = branch_state
              /\ markovLast'.encountered_states = SampledSinceBranch(c)
              /\ markov_mon'.markov_predictor =
                     Markov_update_chain(markov_mon.markov_predictor, c,
                                         branch_state, SampledSinceBranch(c))
      ]_vars

\* core 0 was sampled RUNNING, branched, was sampled IDLE while core 1 was
\* sampled RUNNING, and branched again: update_chain was given <<IDLE>>
C27_Witness ==
    /\ script = "csba_mcp"
    /\ hookLast.op = "branch"
    /\ markovLast.core_id = 0
    /\ Len(markov_mon.branch_log) = 2
    /\ Len(markov_mon.core_state_log) = 4
    /\ markov_mon.core_state_log[1][3] = RUNNING
    /\ markov_mon.core_state_log[4][2] = 1
    /\ markov_mon.core_state_log[4][3] = RUNNING
    /\ markov_mon.core_state_log[4][1] < markov_mon.branch_log[2][1]
    /\ markov_mon.branch_log[1][1] < markov_mon.core_state_log[3][1]
    /\ markovLast.encountered_states = <<IDLE>>

\* C25: dump_transition_stats does not modify the transition table or any
\* other predictor state, and its output is a function of the table alone:
\* two consecutive dumps with no update_chain call in between produce
\* identical row sequences (one row per record, same order, same count,
\* idle_count and ratio).
IsMcpDump == mcpLast'.op = "dump_transition_stats"
RowMatches(row, record) ==
    /\ row.Prev_IP = hex(record.key[1][1])
    /\ row.Prev_Taken = record.key[1][2]
    /\ row.Next_IP = hex(record.key[2][1])
    /\ row.Next_Taken = record.key[2][2]
    /\ row.Count = record.count
    /\ row.Idle_Count = record.idle_count
    /\ LET diff == row.Idle_Ratio * record.count
                      - 10000 * record.idle_count
       IN  2 * (IF diff < 0 THEN 0 - diff ELSE diff) <= record.count
RowsOfTable(rows, table) ==
    /\ Len(rows) = Len(table)
    /\ \A i \in 1..Len(table) : RowMatches(rows[i], table[i])
C25_DumpIsPure ==
    [][ (script = "markov_predictor" /\ IsMcpDump) =>
          /\ mcp' = mcp
          /\ RowsOfTable(mcpLast'.rows, mcp.transition_stats)
          /\ mcpLast.op = "dump_transition_stats"
                => mcpLast'.rows = mcpLast.rows
      ]_vars

\* a table of two records, one of them with idle_count 1 of count 2 (ratio
\* 0.5000), was dumped
C25_Witness ==
    /\ script = "markov_predictor"
    /\ mcpLast.op = "dump_transition_stats"
    /\ Len(mcpLast.rows) = 2
    /\ \E i \in 1..2 :
          /\ mcpLast.rows[i].Count = 2
          /\ mcpLast.rows[i].Idle_Count = 1
          /\ mcpLast.rows[i].Idle_Ratio = 5000

\* C31: in every reachable state of MarkovChainPredictor every stored
\* record has count >= 1, the sum of count over all records equals the
\* number of update_chain calls minus the number of distinct cores that
\* have produced at least one branch, and branches_taken +
\* branches_not_taken equals the total number of update_chain calls (first
\* branches included).
RECURSIVE TotalCount(_)
TotalCount(stats) ==
    IF stats = << >> THEN 0 ELSE Head(stats).count + TotalCount(Tail(stats))
CountsAccountFor(p, calls, cores) ==
    /\ \A i \in 1..Len(p.transition_stats) : p.transition_stats[i].count >= 1
    /\ TotalCount(p.transition_stats) = calls - Cardinality(cores)
    /\ p.branches_taken + p.branches_not_taken = calls
    /\ DOMAIN p.last_branch_state = cores
C31_CountsAccountForCalls ==
    /\ script = "markov_predictor" =>
          CountsAccountFor(mcp, mcpLast.calls, mcpLast.cores)
    /\ script = "csba_mcp" =>
          CountsAccountFor(markov_mon.markov_predictor, markovLast.calls,
                           markovLast.branched)

\* five update_chain calls from two cores left two records whose counts
\* add up to three
C31_Witness ==
    /\ script = "markov_predictor"
    /\ mcpLast.calls = 5
    /\ mcpLast.cores = {0, 1}
    /\ Len(mcp.transition_stats) = 2
    /\ TotalCount(mcp.transition_stats) = 3

(* ---------------------------------------------------------------------- *)
(* Properties of the prediction statistics                                 *)
(* ---------------------------------------------------------------------- *)
\* the entries log_prediction appended to the log of p to give that of q
NewEntries(p, q) ==
    SubSeq(q.prediction_log, Len(p.prediction_log) + 1,
           Len(q.prediction_log))
\* calls of log_prediction took predictor p to q: one entry appended per
\* call, and the counters moved by the entries whose prediction is not None
LogEffect(p, q, calls) ==
    LET new == NewEntries(p, q)
        known == {i \in 1..Len(new) : new[i].predicted_idle # "None"}
        correct == {i \in known :
                       new[i].predicted_idle = PyBool(new[i].actual_idle)}
        idle == {i \in known : new[i].predicted_idle = "True"}
        active == {i \in known : new[i].predicted_idle = "False"}
    IN  /\ Len(q.prediction_log) = Len(p.prediction_log) + calls
        /\ SubSeq(q.prediction_log, 1, Len(p.prediction_log))
               = p.prediction_log
        /\ q.num_predictions_made =
               p.num_predictions_made + Cardinality(known)
        /\ q.num_predictions_correct =
               p.num_predictions_correct + Cardinality(correct)
        /\ q.num_predictions_idle =
               p.num_predictions_idle + Cardinality(idle)
        /\ q.num_predictions_active =
               p.num_predictions_active + Cardinality(active)
\* the entry appended last carries the arguments of the call
LoggedAs(q, predicted_idle, actual_idle) ==
    /\ q.prediction_log # << >>
    /\ q.prediction_log[Len(q.prediction_log)].predicted_idle = predicted_idle
    /\ q.prediction_log[Len(q.prediction_log)].actual_idle = actual_idle
\* the step is a non-zero periodic tick of the Markov monitor
IsMarkovTick ==
    /\ script = "csba_mcp"
    /\ hookLast'.op = "periodic"
    /\ hookLast'.time_delta # 0
    /\ sim_time' # sim_time
MarkovLogEffect ==
    /\ (script = "markov_log_prediction"
          /\ mcpLast'.op = "log_prediction") =>
           /\ LogEffect(mcp, mcp', 1)
           /\ LoggedAs(mcp', mcpLast'.predicted_idle, mcpLast'.actual_idle)
    /\ IsMarkovTick =>
           LogEffect(markov_mon.markov_predictor,
                     markov_mon'.markov_predictor, Cardinality(Cores))
NbitLogEffect ==
    /\ (script = "nbit_log_prediction"
          /\ nbpLast'.op = "log_prediction") =>
           /\ LogEffect(nbp, nbp', 1)
           /\ LoggedAs(nbp', nbpLast'.predicted_idle, nbpLast'.actual_idle)
    /\ (script = "nbit" /\ hookLast'.op = "periodic"
          /\ hookLast'.time_delta # 0 /\ sim_time' # sim_time) =>
           \A core_id \in Cores :
               LogEffect(nbit_mon.nbit_predictors[core_id],
                         nbit_mon'.nbit_predictors[core_id], 1)

\* the same property for the Markov predictor alone
MarkovLogPredictionCounts == [][MarkovLogEffect]_vars

\* C18: every call of log_prediction appends exactly one entry to the
\* prediction log, and moves made, correct and the idle/active split only
\* when the predicted value is not None: with None all four counters are
\* unchanged.  For the log_prediction of the Markov and of the n-bit
\* predictor.
C18_LogPredictionCounts == [][MarkovLogEffect /\ NbitLogEffect]_vars

\* C19: the accuracy each predictor reports at the end of the run is
\* correct / made * 100 when made > 0 and 0 when made = 0, and computing it
\* never raises; for the confidence predictor made is Correct + Incorrect,
\* so Correct = 0 with Incorrect > 0 reports 0 and so does a run with no
\* counted prediction.  The text written with two decimals is that value
\* rounded to the nearest hundredth.
IsPercent(accuracy, correct, made) ==
    /\ accuracy # ZeroDivisionError
    /\ accuracy.den > 0
    /\ IF made > 0
       THEN accuracy.num * made = 100 * correct * accuracy.den
       ELSE accuracy.num = 0
IsRounded(text, accuracy) ==
    LET diff == text * accuracy.den - 100 * accuracy.num
    IN  2 * (IF diff < 0 THEN 0 - diff ELSE diff) <= accuracy.den
C19_AccuracyReported ==
    hookLast.op = "sim_end" =>
        /\ script = "acaps_scsp" => \A core \in ScspCores :
              LET stats == scsp.acsp[core].stats
              IN  IsPercent(hookLast.report[core].Accuracy, stats.Correct,
                            stats.Correct + stats.Incorrect)
        /\ script = "nbit" => \A core_id \in Cores :
              LET p == nbit_mon.nbit_predictors[core_id]
                  row == hookLast.report[core_id]
              IN  /\ IsPercent(row.accuracy, p.num_predictions_correct,
                               p.num_predictions_made)
                  /\ IsRounded(row.Accuracy_Percent, row.accuracy)
        /\ script = "csba_mcp" =>
              LET p == markov_mon.markov_predictor
                  row == hookLast.report
              IN  /\ IsPercent(row.accuracy, p.num_predictions_correct,
                               p.num_predictions_made)
                  /\ IsRounded(row.Accuracy_Percent, row.accuracy)

\* a run of Scsp ended with core 0 at Correct = 0 and Incorrect = 1 and
\* core 1 with no counted prediction: both rows report 0
C19_Witness ==
    /\ script = "acaps_scsp"
    /\ scsp.num_cores = 2
    /\ hookLast.op = "sim_end"
    /\ scsp.acsp[0].stats = [Correct |-> 0, Incorrect |-> 1]
    /\ scsp.acsp[1].stats = [Correct |-> 0, Incorrect |-> 0]
    /\ hookLast.report[0].Accuracy = [num |-> 0, den |-> 1]
    /\ hookLast.report[1].Accuracy = [num |-> 0, den |-> 1]

(* ---------------------------------------------------------------------- *)
(* Properties of the monitors' event ids                                   *)
(* ---------------------------------------------------------------------- *)
\* C20: event ids are monotonically increasing and globally unique: over
\* any interleaving of non-zero ticks and branch events every id taken from
\* global_event_id is greater than every id taken before, so no two entries
\* of the core-state log, the branch log and the prediction log of one
\* monitor share an event_id unless they were created for the same per-core
\* sample, and a prediction log is in strictly increasing event_id order.
\* the event ids of a log of tuples, and of a prediction log, in log order
TupleIds(log) == [i \in 1..Len(log) |-> log[i][1]]
EntryIds(log) == [i \in 1..Len(log) |-> log[i].event_id]
StrictlyIncreasing(ids) ==
    \A i \in 1..Len(ids), j \in 1..Len(ids) : i < j => ids[i] < ids[j]
IdSet(ids) == {ids[i] : i \in 1..Len(ids)}
\* the ids of the samples and of the branches of a monitor are all the ids
\* handed out so far, each once, in increasing order in each log
IdsHandedOutOnce(mon) ==
    LET samples == TupleIds(mon.core_state_log)
        branches == TupleIds(mon.branch_log)
    IN  /\ StrictlyIncreasing(samples)
        /\ StrictlyIncreasing(branches)
        /\ IdSet(samples) \cap IdSet(branches) = {}
        /\ IdSet(samples) \cup IdSet(branches) = 1..(mon.global_event_id - 1)
\* a prediction log is increasing, and each entry carries the id of the
\* sample of its core it was created for and of no other entry
PredictionIdsOfSamples(mon, log) ==
    /\ StrictlyIncreasing(EntryIds(log))
    /\ \A i \in 1..Len(log) :
          /\ \E n \in 1..Len(mon.core_state_log) :
                /\ mon.core_state_log[n][1] = log[i].event_id
                /\ mon.core_state_log[n][2] = log[i].core_id
          /\ log[i].event_id \notin IdSet(TupleIds(mon.branch_log))
C20_EventIdsUnique ==
    /\ script = "csba_mcp" =>
          /\ IdsHandedOutOnce(markov_mon)
          /\ PredictionIdsOfSamples(markov_mon,
                                    markov_mon.markov_predictor.prediction_log)
          /\ Len(markov_mon.markov_predictor.prediction_log)
                = Len(markov_mon.core_state_log)
    /\ script = "nbit" =>
          /\ IdsHandedOutOnce(nbit_mon)
          /\ \A core_id \in Cores :
                PredictionIdsOfSamples(
                    nbit_mon, nbit_mon.nbit_predictors[core_id].prediction_log)
          /\ \A c \in Cores, d \in Cores :
                c # d =>
                  IdSet(EntryIds(nbit_mon.nbit_predictors[c].prediction_log))
                    \cap
                  IdSet(EntryIds(nbit_mon.nbit_predictors[d].prediction_log))
                    = {}

\* the Markov monitor saw a tick, a branch and another tick: the samples
\* carry ids 1, 2, 4, 5 and the branch id 3
C20_Witness ==
    /\ script = "csba_mcp"
    /\ markov_mon.global_event_id = 6
    /\ TupleIds(markov_mon.core_state_log) = <<1, 2, 4, 5>>
    /\ TupleIds(markov_mon.branch_log) = <<3>>
    /\ EntryIds(markov_mon.markov_predictor.prediction_log) = <<1, 2, 4, 5>>

(* ---------------------------------------------------------------------- *)
(* Properties of the branch-event analyzer (SpecAnalysis)                  *)
(* ---------------------------------------------------------------------- *)
\* the event ids record_branch_event has handed out on one core
RecordedIds(a) == 1..(a.next_event_id - 1)
\* the records of a list that carry event_id
CopiesOf(records, event_id) ==
    Cardinality({i \in 1..Len(records) : records[i].event_id = event_id})
\* every recorded event is in exactly one of the two collections, once, and
\* the collections hold nothing else
InExactlyOne(a) ==
    /\ \A event_id \in RecordedIds(a) :
          CopiesOf(a.active_records, event_id)
              + CopiesOf(a.completed_records, event_id) = 1
    /\ \A i \in 1..Len(a.active_records) :
          a.active_records[i].event_id \in RecordedIds(a)
    /\ \A i \in 1..Len(a.completed_records) :
          a.completed_records[i].event_id \in RecordedIds(a)
\* the elapsed time of a sample exceeds the observation window
Exceeds(a, sample) == sample[1] > a.observation_window * TimeUS
\* no sample of an active record exceeds the window; the last sample of a
\* completed record does and it is the only one
CompletedAtFirstExcess(a) ==
    /\ \A i \in 1..Len(a.active_records) :
          \A k \in 1..Len(a.active_records[i].states) :
              ~Exceeds(a, a.active_records[i].states[k])
    /\ \A i \in 1..Len(a.completed_records) :
          LET states == a.completed_records[i].states
          IN  /\ states # << >>
              /\ \A k \in 1..Len(states) :
                    Exceeds(a, states[k]) <=> k = Len(states)
\* the step is a non-zero periodic tick of the analyzer
IsAnalyzerTick ==
    /\ script = "analysis_data_export"
    /\ hookLast'.op = "periodic"
    /\ hookLast'.time_delta # 0
    /\ sim_time' # sim_time
\* a tick gives every active record of a one more sample and moves it to
\* the completed records of b exactly when that sample exceeds the window
SampledOnce(a, b, time, current_state) ==
    \A i \in 1..Len(a.active_records) :
        LET record == a.active_records[i]
            sample == <<time - record.start_time, current_state>>
            sampled == [record EXCEPT !.states = Append(@, sample)]
        IN  IF Exceeds(a, sample)
            THEN /\ \E k \in 1..Len(b.completed_records) :
                       b.completed_records[k] = sampled
                 /\ CopiesOf(b.active_records, record.event_id) = 0
            ELSE /\ \E k \in 1..Len(b.active_records) :
                       b.active_records[k] = sampled
                 /\ CopiesOf(b.completed_records, record.event_id) = 0
\* the completed records of a are those of b, unchanged, from the start
CompletedKept(a, b) ==
    /\ Len(b.completed_records) >= Len(a.completed_records)
    /\ SubSeq(b.completed_records, 1, Len(a.completed_records))
           = a.completed_records
\* the lines of core_state_patterns.csv: one per recorded event
WrittenOnce(patterns) ==
    /\ \A core_id \in Cores :
          LET a == analyzer.core_analyzers[core_id]
          IN  \A event_id \in RecordedIds(a) :
                  Cardinality({i \in 1..Len(patterns) :
                                  /\ patterns[i].Core_ID = core_id
                                  /\ patterns[i].Event_ID = event_id}) = 1
    /\ Len(patterns) = analyzer.total_branches

\* C33: in CoreStateAnalyzer every recorded branch event is, at every
\* moment, in exactly one of active_records and completed_records; a record
\* moves from active to completed at the first non-zero sample whose elapsed
\* time exceeds the observation window (that sample is still appended to
\* it), a completed record never receives another sample, and at end of run
\* each recorded branch event is written exactly once.
C33_RecordLifeCycle ==
    /\ [](script = "analysis_data_export" =>
            /\ \A core_id \in Cores :
                  /\ InExactlyOne(analyzer.core_analyzers[core_id])
                  /\ CompletedAtFirstExcess(analyzer.core_analyzers[core_id])
            /\ hookLast.op = "sim_end" =>
                  WrittenOnce(hookLast.report.patterns))
    /\ [][ /\ IsAnalyzerTick => \A core_id \in Cores :
                  SampledOnce(analyzer.core_analyzers[core_id],
                              analyzer'.core_analyzers[core_id],
                              sim_time', hookLast'.states[core_id])
           /\ script = "analysis_data_export" => \A core_id \in Cores :
                  CompletedKept(analyzer.core_analyzers[core_id],
                                analyzer'.core_analyzers[core_id])
         ]_vars

\* with a window of one microsecond the record of a branch of core 0 was
\* completed by its second sample, and the run ended writing its one line
C33_Witness ==
    /\ script = "analysis_data_export"
    /\ analyzer.observation_window = 1
    /\ Len(analyzer.core_analyzers[0].completed_records) = 1
    /\ Len(analyzer.core_analyzers[0].completed_records[1].states) = 2
    /\ hookLast.op = "sim_end"
    /\ Len(hookLast.report.patterns) = 1

(* ---------------------------------------------------------------------- *)
(* Properties of all scripts (Spec)                                        *)
(* ---------------------------------------------------------------------- *)
\* C26: no run of valid events can fail outside configuration: for every
\* finite sequence of periodic ticks and branch events, including a run in
\* which no branch event ever occurs, every per-event hook and every
\* end-of-run hook of the scripts (in particular
\* BranchMarkovPredictor.hook_sim_end, which reports taken/not-taken
\* percentages) completes without raising.
SimEndCompleted ==
    /\ script = "branch_markov_predictor" => hookLast.report.raised = "none"
    /\ script = "acaps_scsp" => \A core \in ScspCores :
          /\ hookLast.report[core].Accuracy # ZeroDivisionError
          /\ hookLast.report[core].vdd.raised = "none"
    /\ script = "nbit" => \A core_id \in Cores :
          hookLast.report[core_id].accuracy # ZeroDivisionError
    /\ script = "csba_mcp" => hookLast.report.accuracy # ZeroDivisionError
    /\ (script = "analysis_data_export" /\ analyzer.observation_window >= 1)
          => hookLast.report.raised = "none"
C26_NoHookRaises ==
    hookLast.op = "sim_end" => SimEndCompleted

\* C32: in every reachable state of each accuracy tracker (Markov and
\* n-bit), num_predictions_made = num_predictions_idle +
\* num_predictions_active and 0 <= num_predictions_correct <=
\* num_predictions_made, and the prediction log has exactly one entry per
\* core per non-zero periodic tick: its length equals the number of
\* core-state samples logged for that predictor.
Tallies(p) ==
    /\ p.num_predictions_made
           = p.num_predictions_idle + p.num_predictions_active
    /\ 0 <= p.num_predictions_correct
    /\ p.num_predictions_correct <= p.num_predictions_made
\* every periodic callback of a run advances the clock by its time_delta,
\* which is 0 or 1: the clock counts the non-zero ticks
NonZeroTicks == sim_time
\* the entries of a prediction log made for core_id
EntriesOf(log, core_id) ==
    Cardinality({i \in 1..Len(log) : log[i].core_id = core_id})
\* the samples of core_id in a core_state_log
SamplesOf(core_state_log, core_id) ==
    Cardinality({i \in 1..Len(core_state_log) :
                    core_state_log[i][2] = core_id})
C32_TalliesAndLogLength ==
    /\ Tallies(nbp) /\ Tallies(mcp)
    /\ Tallies(markov_mon.markov_predictor)
    /\ \A core_id \in Cores : Tallies(nbit_mon.nbit_predictors[core_id])
    /\ script = "nbit" => \A core_id \in Cores :
          LET log == nbit_mon.nbit_predictors[core_id].prediction_log
          IN  /\ Len(log) = NonZeroTicks
              /\ Len(log) = SamplesOf(nbit_mon.core_state_log, core_id)
              /\ EntriesOf(log, core_id) = Len(log)
    /\ script = "csba_mcp" =>
          LET log == markov_mon.markov_predictor.prediction_log
          IN  /\ Len(log) = Cardinality(Cores) * NonZeroTicks
              /\ Len(log) = Len(markov_mon.core_state_log)
              /\ \A core_id \in Cores :
                    /\ EntriesOf(log, core_id) = NonZeroTicks
                    /\ EntriesOf(log, core_id)
                          = SamplesOf(markov_mon.core_state_log, core_id)

\* two non-zero ticks of the Markov monitor after two branches of one core:
\* four entries in the log, of which only two carry a prediction (active
\* both times, correct once)
C32_Witness ==
    /\ script = "csba_mcp"
    /\ NonZeroTicks = 2
    /\ Len(markov_mon.markov_predictor.prediction_log) = 4
    /\ markov_mon.markov_predictor.num_predictions_made = 2
    /\ markov_mon.markov_predictor.num_predictions_correct = 1
    /\ markov_mon.markov_predictor.num_predictions_idle = 0
    /\ markov_mon.markov_predictor.num_predictions_active = 2

\* C7: a periodic callback called with time_delta = 0 changes nothing, in
\* Scsp.periodic, in hook_periodic of the Markov monitor and of the n-bit
\* monitor, and in collect_state_sample of every CoreStateAnalyzer:
\* predictors, counters, logs, event-id counters, average-frequency
\* accumulators and core frequencies are the same after the call as before.
ZeroDeltaScsp ==
    /\ script = "acaps_scsp"
    /\ scspLast'.op = "periodic"
    /\ scspLast'.time_delta = 0
ZeroDeltaHook ==
    /\ script \in {"nbit", "csba_mcp", "analysis_data_export"}
    /\ hookLast'.op = "periodic"
    /\ hookLast'.time_delta = 0
C7_ZeroDeltaIsNoOp ==
    [][ /\ ZeroDeltaScsp => UNCHANGED <<scsp, core_freq>>
        /\ ZeroDeltaHook => UNCHANGED <<nbit_mon, markov_mon, analyzer>>
      ]_vars

\* the Markov monitor, having logged samples and a branch, was called with
\* time_delta = 0
C7_Witness ==
    /\ script = "csba_mcp"
    /\ hookLast.op = "periodic"
    /\ hookLast.time_delta = 0
    /\ Len(markov_mon.core_state_log) >= 2
    /\ Len(markov_mon.branch_log) >= 1

====
